---- MODULE Spec2Model ----
(***************************************************************************)
(* Guardrail and validation pipeline of the LLM grading system             *)
(* (src/guardrails.py, src/schemas.py).                                    *)
(*                                                                         *)
(* Python values are tagged records: [k |-> "int", v |-> 3],               *)
(* [k |-> "str", v |-> "abc"], [k |-> "none"], and [k |-> "absent"] for a  *)
(* key a dict does not have.  Points are kept in hundredths of a point     *)
(* (a float 7.0 is 700) so that the 0.01 tolerance is the integer 1.       *)
(* Text is a TLA+ string; the severity markers of the messages are the     *)
(* ASCII strings PassMark, WarnMark and FailMark.                          *)
(***************************************************************************)
EXTENDS Integers, Sequences, FiniteSets, TLC

VARIABLES
    submission_history,   \* RateLimitGuardrails.submission_history: id -> list of timestamps
    clock,                \* what datetime.now() returns, in seconds
    pc,                   \* per worker: position inside check_rate_limit
    locals,               \* per worker: student_id, now, hour_ago, recent of the running call
    lock,                 \* the external mutual exclusion: its holder, or NoWorker
    serialized,           \* whether the callers use the external mutual exclusion
    calls,                \* the check_rate_limit calls that returned, in order of return
    request,              \* the arguments of the guard call under way
    ret                   \* what that call returned (or that it raised)

vars == <<submission_history, clock, pc, locals, lock, serialized, calls, request, ret>>

-----------------------------------------------------------------------------
(* Bounds of the model *)

MaxTicks == 2          \* the clock stops after this many half-hours
MaxCalls == 5          \* check_rate_limit calls per behaviour of the rate-limiter model
RateN == 3             \* the max_submissions_per_hour the rate-limiter model's callers pass
MaxSerialTicks == 3     \* half-hours the clock advances between whole calls of the limiter
MaxAttempts == 4       \* the largest attempt_number a first call of should_retry is given
MaxRetries == 3        \* the largest max_retries a caller of should_retry passes
MaxResults == 21       \* question results in one exam report

-----------------------------------------------------------------------------
(* Program constants *)

Hour == 3600
DefaultMaxPerHour == 20
MaxAnswerLen == 5000
MinQuestion == 1
MaxQuestion == 10
MaxPoints == 1000            \* le=10, in hundredths
DefaultPointsPossible == 10
Tolerance == 1               \* 0.01, in hundredths
MinFeedbackSchema == 50
MinFeedbackOutput == 20
MinFeedbackPolicy == 50
CorrectMinPoints == 800      \* 8 points, in hundredths
MinZeroPointErrors == 2

PassMark == "[PASS] "
WarnMark == "[WARN] "
FailMark == "[FAIL] "

-----------------------------------------------------------------------------
(* Text *)

UpperToLower ==
    [A |-> "a", B |-> "b", C |-> "c", D |-> "d", E |-> "e", F |-> "f", G |-> "g",
     H |-> "h", I |-> "i", J |-> "j", K |-> "k", L |-> "l", M |-> "m", N |-> "n",
     O |-> "o", P |-> "p", Q |-> "q", R |-> "r", S |-> "s", T |-> "t", U |-> "u",
     V |-> "v", W |-> "w", X |-> "x", Y |-> "y", Z |-> "z"]

LowerChar(c) == IF c \in DOMAIN UpperToLower THEN UpperToLower[c] ELSE c

\* str.lower()
RECURSIVE Lower(_)
Lower(s) ==
    IF Len(s) = 0 THEN ""
    ELSE IF Len(s) = 1 THEN LowerChar(s)
    ELSE LET half == Len(s) \div 2
         IN  Lower(SubSeq(s, 1, half)) \o Lower(SubSeq(s, half + 1, Len(s)))

\* needle in hay
Contains(hay, needle) ==
    \E i \in 1..(Len(hay) - Len(needle) + 1) : SubSeq(hay, i, i + Len(needle) - 1) = needle

StartsWith(s, p) == Len(s) >= Len(p) /\ SubSeq(s, 1, Len(p)) = p

IsSpace(c) == c \in {" ", "\t", "\n", "\r", "\f"}

\* str.strip()
Strip(s) ==
    LET n == Len(s)
        Kept(i) == ~IsSpace(SubSeq(s, i, i))
    IN  IF \A i \in 1..n : ~Kept(i) THEN ""
        ELSE LET first == CHOOSE i \in 1..n : Kept(i) /\ \A j \in 1..(i - 1) : ~Kept(j)
                 last == CHOOSE i \in 1..n : Kept(i) /\ \A j \in (i + 1)..n : ~Kept(j)
             IN  SubSeq(s, first, last)

RECURSIVE Rep(_, _)
Rep(s, n) ==
    IF n = 0 THEN ""
    ELSE LET h == Rep(s, n \div 2)
         IN  IF n % 2 = 0 THEN h \o h ELSE h \o h \o s

-----------------------------------------------------------------------------
(* Python values *)

Absent == [k |-> "absent"]
None == [k |-> "none"]
PyInt(n) == [k |-> "int", v |-> n]
PyFloat(c) == [k |-> "float", v |-> c]          \* c in hundredths
PyBool(b) == [k |-> "bool", v |-> b]
PyStr(s) == [k |-> "str", v |-> s]
PyList(q) == [k |-> "list", v |-> q]            \* a list of str
PyDict(d) == [k |-> "dict", v |-> d]            \* a dict of str -> number (hundredths)

IsNumber(x) == x.k \in {"int", "float"}
\* a number in hundredths
Num(x) == IF x.k = "int" THEN 100 * x.v ELSE x.v

Abs(x) == IF x < 0 THEN -x ELSE x

EmptyDict == [x \in {} |-> 0]

\* str(x)
str(x) ==
    CASE x.k = "str" -> x.v
      [] x.k = "none" -> "None"
      [] x.k = "absent" -> "None"
      [] x.k = "int" -> ToString(x.v)
      [] x.k = "bool" -> IF x.v THEN "True" ELSE "False"
      [] x.k = "dict" -> IF DOMAIN x.v = {} THEN "{}" ELSE "{...}"
      [] OTHER -> "[...]"

\* d.get(key, default)
Get(d, key, default) == IF key \in DOMAIN d THEN d[key] ELSE default

Put(d, key, val) == [x \in DOMAIN d \cup {key} |-> IF x = key THEN val ELSE d[x]]

\* sum(d.values())
RECURSIVE SumValues(_)
SumValues(d) ==
    IF DOMAIN d = {} THEN 0
    ELSE LET key == CHOOSE x \in DOMAIN d : TRUE
         IN  d[key] + SumValues([x \in DOMAIN d \ {key} |-> d[x]])

\* ", ".join-like rendering of a list of error lines
RECURSIVE JoinLines(_)
JoinLines(q) == IF q = <<>> THEN "" ELSE "\n" \o Head(q) \o JoinLines(Tail(q))

-----------------------------------------------------------------------------
(* src/schemas.py: GradingResult *)

ErrorTypes == {"wrong_calculation", "wrong_methodology", "missing_data",
               "incomplete_work", "no_error"}
NoErrorType == "<None>"       \* error_type = None

FieldOk(val) == [ok |-> TRUE, v |-> val]
FieldError(loc, msg) == [ok |-> FALSE, msg |-> loc \o ": " \o msg]

\* @validator('points_earned')
validate_points(v, values) ==
    IF v > 100 * Get(values, "points_possible", DefaultPointsPossible)
    THEN FieldError("points_earned", "Points earned cannot exceed points possible")
    ELSE FieldOk(v)

validate_breakdown_Exact(v, values) ==
    LET total == SumValues(v)
        expected == Get(values, "points_earned", 0)
    IN  IF total # expected
        THEN FieldError("points_breakdown",
                        "Points breakdown (" \o ToString(total)
                        \o ") must sum to points_earned (" \o ToString(expected) \o ")")
        ELSE FieldOk(v)

validate_breakdown_Tenth(v, values) ==
    LET total == SumValues(v)
        expected == Get(values, "points_earned", 0)
    IN  IF Abs(total - expected) > 10 * Tolerance
        THEN FieldError("points_breakdown",
                        "Points breakdown (" \o ToString(total)
                        \o ") must sum to points_earned (" \o ToString(expected) \o ")")
        ELSE FieldOk(v)

\* @validator('points_breakdown')
validate_breakdown(v, values) ==
    LET total == SumValues(v)
        expected == Get(values, "points_earned", 0)
    IN  IF Abs(total - expected) > Tolerance
        THEN FieldError("points_breakdown",
                        "Points breakdown (" \o ToString(total)
                        \o ") must sum to points_earned (" \o ToString(expected) \o ")")
        ELSE FieldOk(v)

\* @validator('student_answer', pre=True) and @validator('correct_answer', pre=True)
parse_student_answer(x) ==
    IF x.k = "dict" THEN Get(x.v, "value", PyStr(str(x))) ELSE x

Digits == "0123456789"
IsDigit(c) == \E d \in 1..Len(Digits) : SubSeq(Digits, d, d) = c
DigitValue(c) == (CHOOSE d \in 1..Len(Digits) : SubSeq(Digits, d, d) = c) - 1

\* the string is a decimal numeral
IsNumeral(s) == s # "" /\ \A i \in 1..Len(s) : IsDigit(SubSeq(s, i, i))

\* int(s) of a decimal numeral
RECURSIVE ParseInt(_)
ParseInt(s) ==
    IF s = "" THEN 0
    ELSE 10 * ParseInt(SubSeq(s, 1, Len(s) - 1)) + DigitValue(SubSeq(s, Len(s), Len(s)))

\* the validation of an int field: an int is taken as it is, a bool and a str that is
\* a decimal numeral are converted to int
CoerceInt(x) ==
    CASE x.k = "int" -> FieldOk(x.v)
      [] x.k = "bool" -> FieldOk(IF x.v THEN 1 ELSE 0)
      [] x.k = "str" /\ IsNumeral(x.v) -> FieldOk(ParseInt(x.v))
      [] OTHER -> [ok |-> FALSE]

QuestionNumberInRange(n) ==
    CASE n < MinQuestion -> FieldError("question_number", "ensure this value is greater than or equal to 1")
      [] n > MaxQuestion -> FieldError("question_number", "ensure this value is less than or equal to 10")
      [] OTHER -> FieldOk(n)

\* question_number: int = Field(..., ge=1, le=10)
F_question_number(x) ==
    CASE x.k = "absent" -> FieldError("question_number", "field required")
      [] ~CoerceInt(x).ok -> FieldError("question_number", "value is not a valid integer")
      [] OTHER -> QuestionNumberInRange(CoerceInt(x).v)

F_points_earned(x, values) ==
    CASE x.k = "absent" -> FieldError("points_earned", "field required")
      [] ~IsNumber(x) -> FieldError("points_earned", "value is not a valid float")
      [] Num(x) < 0 -> FieldError("points_earned", "ensure this value is greater than or equal to 0")
      [] Num(x) > MaxPoints -> FieldError("points_earned", "ensure this value is less than or equal to 10")
      [] OTHER -> validate_points(Num(x), values)

F_points_possible(x) ==
    CASE x.k = "absent" -> FieldOk(DefaultPointsPossible)
      [] ~CoerceInt(x).ok -> FieldError("points_possible", "value is not a valid integer")
      [] OTHER -> FieldOk(CoerceInt(x).v)

F_is_correct(x) ==
    CASE x.k = "absent" -> FieldError("is_correct", "field required")
      [] x.k # "bool" -> FieldError("is_correct", "value could not be parsed to a boolean")
      [] OTHER -> FieldOk(x.v)

F_text(loc, x0) ==
    LET x == parse_student_answer(x0)
    IN  CASE x.k = "absent" -> FieldError(loc, "field required")
          [] x.k # "str" -> FieldError(loc, "str type expected")
          [] OTHER -> FieldOk(x.v)

F_points_breakdown(x, values) ==
    CASE x.k = "absent" -> FieldError("points_breakdown", "field required")
      [] x.k # "dict" -> FieldError("points_breakdown", "value is not a valid dict")
      [] OTHER -> validate_breakdown(x.v, values)

F_error_type(x) ==
    CASE x.k \in {"absent", "none"} -> FieldOk(NoErrorType)
      [] x.k = "str" /\ x.v \in ErrorTypes -> FieldOk(x.v)
      [] OTHER -> FieldError("error_type", "unexpected value")

F_list(loc, x) ==
    CASE x.k = "absent" -> FieldOk(<<>>)
      [] x.k # "list" -> FieldError(loc, "value is not a valid list")
      [] OTHER -> FieldOk(x.v)

F_feedback_AnyLength(x) ==
    CASE x.k = "absent" -> FieldError("feedback", "field required")
      [] x.k # "str" -> FieldError("feedback", "str type expected")
      [] OTHER -> FieldOk(x.v)

\* feedback: str = Field(..., min_length=50)
F_feedback(x) ==
    CASE x.k = "absent" -> FieldError("feedback", "field required")
      [] x.k # "str" -> FieldError("feedback", "str type expected")
      [] Len(x.v) < MinFeedbackSchema -> FieldError("feedback", "ensure this value has at least 50 characters")
      [] OTHER -> FieldOk(x.v)

FieldNames == <<"question_number", "points_earned", "points_possible", "is_correct",
                "student_answer", "correct_answer", "points_breakdown", "error_type",
                "specific_errors", "what_was_correct", "feedback", "data_references">>

\* the validation of field number i, given the fields validated before it
ValidateField(i, kw, values) ==
    CASE i = 1 -> F_question_number(kw.question_number)
      [] i = 2 -> F_points_earned(kw.points_earned, values)
      [] i = 3 -> F_points_possible(kw.points_possible)
      [] i = 4 -> F_is_correct(kw.is_correct)
      [] i = 5 -> F_text("student_answer", kw.student_answer)
      [] i = 6 -> F_text("correct_answer", kw.correct_answer)
      [] i = 7 -> F_points_breakdown(kw.points_breakdown, values)
      [] i = 8 -> F_error_type(kw.error_type)
      [] i = 9 -> F_list("specific_errors", kw.specific_errors)
      [] i = 10 -> F_list("what_was_correct", kw.what_was_correct)
      [] i = 11 -> F_feedback(kw.feedback)
      [] OTHER -> F_list("data_references", kw.data_references)

\* fields are validated in declaration order; `values` holds the fields that
\* passed, `errors` one line per field that failed
RECURSIVE ValidateFrom(_, _, _, _)
Collect(i, kw, values, errors, f) ==
    IF f.ok THEN ValidateFrom(i + 1, kw, Put(values, FieldNames[i], f.v), errors)
    ELSE ValidateFrom(i + 1, kw, values, Append(errors, f.msg))

ValidateFrom(i, kw, values, errors) ==
    IF i > Len(FieldNames) THEN [values |-> values, errors |-> errors]
    ELSE Collect(i, kw, values, errors, ValidateField(i, kw, values))

\* the object, or the ValidationError that lists every field error
Construct(out) ==
    IF out.errors = <<>>
    THEN [raised |-> FALSE, value |-> out.values]
    ELSE [raised |-> TRUE,
          error |-> ToString(Len(out.errors)) \o " validation errors for GradingResult"
                    \o JoinLines(out.errors)]

\* GradingResult(**kw): the object, or the ValidationError it raises
GradingResult(kw) == Construct(ValidateFrom(1, kw, EmptyDict, <<>>))

\* percentages in hundredths of a percent, as points are in hundredths of a point
calculate_letter_grade_Exclusive(percentage) ==
    IF percentage > 9300 THEN "A"
    ELSE IF percentage > 9000 THEN "A-"
    ELSE IF percentage > 8700 THEN "B+"
    ELSE IF percentage > 8300 THEN "B"
    ELSE IF percentage > 8000 THEN "B-"
    ELSE IF percentage > 7700 THEN "C+"
    ELSE IF percentage > 7300 THEN "C"
    ELSE IF percentage > 7000 THEN "C-"
    ELSE IF percentage > 6000 THEN "D"
    ELSE "F"

calculate_letter_grade(percentage) ==
    IF percentage >= 9300 THEN "A"
    ELSE IF percentage >= 9000 THEN "A-"
    ELSE IF percentage >= 8700 THEN "B+"
    ELSE IF percentage >= 8300 THEN "B"
    ELSE IF percentage >= 8000 THEN "B-"
    ELSE IF percentage >= 7700 THEN "C+"
    ELSE IF percentage >= 7300 THEN "C"
    ELSE IF percentage >= 7000 THEN "C-"
    ELSE IF percentage >= 6000 THEN "D"
    ELSE "F"

-----------------------------------------------------------------------------
(* src/guardrails.py: InputGuardrails *)

\* isinstance(x, int); a bool is an int in Python
IsInt(x) == x.k \in {"int", "bool"}
IntValue(x) == IF x.k = "bool" THEN (IF x.v THEN 1 ELSE 0) ELSE x.v

\* field not in submission or submission[field] is None
MissingField(x) == x.k \in {"absent", "none"}

RequiredFieldErrors(submission) ==
    (IF MissingField(submission.question_number)
     THEN <<"Missing required field: question_number">> ELSE <<>>)
    \o (IF MissingField(submission.student_answer)
        THEN <<"Missing required field: student_answer">> ELSE <<>>)

QuestionNumberErrors_ElseBranch(submission) ==
    LET qnum == submission.question_number
    IN  IF ~MissingField(qnum)
           /\ (~IsInt(qnum) \/ IntValue(qnum) < MinQuestion \/ IntValue(qnum) > MaxQuestion)
        THEN <<"Invalid question_number: must be integer 1-10, got " \o str(qnum)>>
        ELSE <<>>

\* if 'question_number' in submission: ...
QuestionNumberErrors(submission) ==
    LET qnum == submission.question_number
    IN  IF qnum.k # "absent"
           /\ (~IsInt(qnum) \/ IntValue(qnum) < MinQuestion \/ IntValue(qnum) > MaxQuestion)
        THEN <<"Invalid question_number: must be integer 1-10, got " \o str(qnum)>>
        ELSE <<>>

EmptyAnswerErrors(submission) ==
    LET answer == submission.student_answer
    IN  CASE answer.k = "absent" -> <<>>
          [] answer.k = "str" /\ Len(Strip(answer.v)) = 0 -> <<"student_answer cannot be empty">>
          [] answer.k = "none" -> <<"student_answer is missing or None">>
          [] OTHER -> <<>>

AnswerLengthErrors(submission) ==
    LET answer == submission.student_answer
    IN  IF answer.k # "absent" /\ Len(str(answer)) > MaxAnswerLen
        THEN <<"student_answer too long (" \o ToString(Len(str(answer))) \o " chars, max 5000)">>
        ELSE <<>>

\* return len(errors) == 0, errors
InputVerdict(errors) == [ok |-> Len(errors) = 0, errors |-> errors]

validate_student_submission(submission) ==
    InputVerdict(RequiredFieldErrors(submission) \o QuestionNumberErrors(submission)
                 \o EmptyAnswerErrors(submission) \o AnswerLengthErrors(submission))

-----------------------------------------------------------------------------
(* src/guardrails.py: OutputGuardrails *)

placeholder_indicators == <<"[insert", "TODO", "FIXME", "xxx", "...">>

IsMapping(response) == "question_number" \in DOMAIN response

QuestionMismatchErrors_Ignored(result, question_number) == <<>>

\* if result.question_number != question_number
QuestionMismatchErrors(result, question_number) ==
    IF ~(IsInt(question_number) /\ result.question_number = IntValue(question_number))
    THEN <<"Question number mismatch: expected " \o str(question_number)
           \o ", got " \o ToString(result.question_number)>>
    ELSE <<>>

PointsExceedErrors(result) ==
    IF result.points_earned > 100 * result.points_possible
    THEN <<"Points earned (" \o ToString(result.points_earned) \o ") exceeds points possible ("
           \o ToString(result.points_possible) \o ")">>
    ELSE <<>>

BreakdownErrors(result) ==
    LET breakdown_sum == SumValues(result.points_breakdown)
    IN  IF Abs(breakdown_sum - result.points_earned) > Tolerance
        THEN <<"Points breakdown (" \o ToString(breakdown_sum)
               \o ") doesn't match points earned (" \o ToString(result.points_earned) \o ")">>
        ELSE <<>>

FeedbackLengthErrors(result) ==
    IF Len(result.feedback) < MinFeedbackOutput
    THEN <<"Feedback too short (" \o ToString(Len(result.feedback)) \o " chars, min 20)">>
    ELSE <<>>

RECURSIVE PlaceholderErrorsFrom(_, _)
PlaceholderErrorsFrom(i, feedback) ==
    IF i > Len(placeholder_indicators) THEN <<>>
    ELSE (IF Contains(Lower(feedback), Lower(placeholder_indicators[i]))
          THEN <<"Feedback contains placeholder text: " \o placeholder_indicators[i]>>
          ELSE <<>>)
         \o PlaceholderErrorsFrom(i + 1, feedback)

PlaceholderErrors_FirstOnly(result) ==
    IF PlaceholderErrorsFrom(1, result.feedback) = <<>>
    THEN <<>>
    ELSE <<PlaceholderErrorsFrom(1, result.feedback)[1]>>

\* for indicator in placeholder_indicators: ...
PlaceholderErrors(result) == PlaceholderErrorsFrom(1, result.feedback)

\* return len(errors) == 0, errors, result
OutputVerdict(errors, result) == [ok |-> Len(errors) = 0, errors |-> errors, result |-> result]

\* the checks made on the constructed result
CheckResult(result, question_number) ==
    OutputVerdict(QuestionMismatchErrors(result, question_number)
                  \o PointsExceedErrors(result)
                  \o BreakdownErrors(result)
                  \o FeedbackLengthErrors(result)
                  \o PlaceholderErrors(result),
                  result)

CheckParsed_KeepsResult(parsed, question_number) ==
    IF parsed.raised
    THEN [ok |-> FALSE, errors |-> <<"Pydantic validation failed: " \o parsed.error>>,
          result |-> parsed]
    ELSE CheckResult(parsed.value, question_number)

\* try: result = GradingResult(**response) except ValidationError ...
CheckParsed(parsed, question_number) ==
    IF parsed.raised
    THEN [ok |-> FALSE, errors |-> <<"Pydantic validation failed: " \o parsed.error>>,
          result |-> None]
    ELSE CheckResult(parsed.value, question_number)

validate_llm_response(response, question_number) ==
    IF ~IsMapping(response)
    THEN [ok |-> FALSE,
          errors |-> <<"Failed to parse response: argument after ** must be a mapping">>,
          result |-> None]
    ELSE CheckParsed(GradingResult(response), question_number)

\* return len(warnings) == 0, warnings
ConsistencyVerdict(warnings) == [ok |-> Len(warnings) = 0, warnings |-> warnings]

check_consistency(result) ==
    ConsistencyVerdict(
            (IF result.is_correct /\ result.points_earned < CorrectMinPoints
             THEN <<"Marked as correct but only " \o ToString(result.points_earned)
                    \o "/10 points - should be at least 8">>
             ELSE <<>>)
         \o (IF ~result.is_correct /\ Len(result.specific_errors) = 0
             THEN <<"Marked as incorrect but no specific_errors provided">> ELSE <<>>)
         \o (IF result.error_type = "no_error" /\ ~result.is_correct
             THEN <<"error_type is 'no_error' but is_correct is False">> ELSE <<>>)
         \o (IF result.points_earned = 0
                /\ \E key \in DOMAIN result.points_breakdown : result.points_breakdown[key] > 0
             THEN <<"Points earned is 0 but breakdown has non-zero values">> ELSE <<>>))

-----------------------------------------------------------------------------
(* src/guardrails.py: BusinessRulesGuardrails *)

PartialCreditViolation == "Policy violation: Wrong calculation with no partial credit"

PolicyVerdict_Compliant(violations) == [ok |-> TRUE, violations |-> violations]

\* return len(violations) == 0, violations
PolicyVerdict(violations) == [ok |-> Len(violations) = 0, violations |-> violations]

enforce_grading_policies(result) ==
    PolicyVerdict(
            (IF result.error_type = "wrong_calculation"
                /\ Get(result.points_breakdown, "showing_work", 0) = 0
             THEN <<"Policy violation: Wrong calculation with no partial credit for methodology">>
             ELSE <<>>)
         \o (IF result.points_earned < 100 * result.points_possible
                /\ Len(result.feedback) < MinFeedbackPolicy
             THEN <<"Policy violation: Incorrect answer requires detailed feedback (min 50 chars, got "
                    \o ToString(Len(result.feedback)) \o ")">>
             ELSE <<>>)
         \o (IF result.error_type \in {"wrong_calculation", "missing_data"}
                /\ Len(result.data_references) = 0
             THEN <<"Policy violation: Data-related error must include data_references">>
             ELSE <<>>)
         \o (IF result.points_earned = 0 /\ Len(result.specific_errors) < MinZeroPointErrors
             THEN <<"Policy violation: Zero points requires at least 2 specific errors">>
             ELSE <<>>))

-----------------------------------------------------------------------------
(* src/guardrails.py: ErrorHandlingGuardrails *)

FallbackFeedback(error_message) ==
    "This submission could not be automatically graded due to a system error.\n\nError details: "
    \o error_message
    \o "\n\nThis answer has been flagged for manual review by an instructor. You will receive \n"
    \o "your grade and feedback within 24 hours.\n\n"
    \o "If you believe this is an error, please contact your instructor."

FallbackSpecificErrors_Single(error_message) == <<"Error: " \o error_message>>

FallbackSpecificErrors(error_message) ==
    <<"Automated grading failed", "Error: " \o error_message,
      "This submission requires manual review">>

\* the GradingResult, or the ValidationError its construction raises
create_fallback_result(question_number, student_answer, error_message) ==
    GradingResult(
        [question_number |-> question_number,
         points_earned |-> PyFloat(0),
         points_possible |-> PyInt(10),
         is_correct |-> PyBool(FALSE),
         student_answer |-> student_answer,
         correct_answer |-> PyStr("[REQUIRES MANUAL REVIEW]"),
         points_breakdown |-> PyDict([key \in {"correct_answer", "showing_work", "interpretation"} |-> 0]),
         error_type |-> PyStr("incomplete_work"),
         specific_errors |-> PyList(FallbackSpecificErrors(error_message)),
         what_was_correct |-> PyList(<<>>),
         feedback |-> PyStr(FallbackFeedback(error_message)),
         data_references |-> PyList(<<"[MANUAL REVIEW REQUIRED]">>)])

RetryableErrors == {"llm_error", "network_error", "timeout_error", "rate_limit_error"}

should_retry_OffByOne(attempt_number, error_type, max_retries) ==
    IF error_type \in {"validation_error", "invalid_input"} THEN FALSE
    ELSE IF attempt_number > max_retries THEN FALSE
    ELSE error_type \in RetryableErrors

should_retry(attempt_number, error_type, max_retries) ==
    IF error_type \in {"validation_error", "invalid_input"} THEN FALSE
    ELSE IF attempt_number >= max_retries THEN FALSE
    ELSE error_type \in RetryableErrors

-----------------------------------------------------------------------------
(* src/guardrails.py: RateLimitGuardrails *)

HourAgo_HalfHour(now) == now - Hour \div 2

\* hour_ago = datetime.now().timestamp() - 3600
\* (the two consecutive clock reads of one call return the same instant)
HourAgo(now) == now - Hour

\* if student_id not in self.submission_history: self.submission_history[student_id] = []
HasKey(history, student_id) == student_id \in DOMAIN history
InitKey(history, student_id) == Put(history, student_id, <<>>)

InWindow_Inclusive(ts, hour_ago) == ts >= hour_ago

\* ts.timestamp() > hour_ago
InWindow(ts, hour_ago) == ts > hour_ago

\* recent = [ts for ts in self.submission_history[student_id] if ts.timestamp() > hour_ago]
Recent(history, student_id, hour_ago) ==
    SelectSeq(history[student_id], LAMBDA ts : InWindow(ts, hour_ago))

OverLimit_Strict(recent, max_submissions_per_hour) == Len(recent) > max_submissions_per_hour

\* if len(recent) >= max_submissions_per_hour: return False
OverLimit(recent, max_submissions_per_hour) == Len(recent) >= max_submissions_per_hour

\* self.submission_history[student_id].append(now)
Record_Prepend(history, student_id, now) ==
    [history EXCEPT ![student_id] = <<now>> \o @]

\* self.submission_history[student_id].append(now)
Record(history, student_id, now) ==
    [history EXCEPT ![student_id] = Append(@, now)]

DeniedMessage(recent, max_submissions_per_hour) ==
    "Rate limit exceeded: " \o ToString(Len(recent)) \o " submissions in last hour (max "
    \o ToString(max_submissions_per_hour) \o ")"

AllowedMessage(recent, max_submissions_per_hour) ==
    "Rate limit OK: " \o ToString(Len(recent) + 1) \o "/" \o ToString(max_submissions_per_hour)
    \o " submissions this hour"

\* the check of the limit and what follows it
Decide(history, now, student_id, max_submissions_per_hour, recent) ==
    IF OverLimit(recent, max_submissions_per_hour)
    THEN [allowed |-> FALSE, msg |-> DeniedMessage(recent, max_submissions_per_hour),
          history |-> history]
    ELSE [allowed |-> TRUE, msg |-> AllowedMessage(recent, max_submissions_per_hour),
          history |-> Record(history, student_id, now)]

WithKey(history, student_id) ==
    IF HasKey(history, student_id) THEN history ELSE InitKey(history, student_id)

\* one uninterrupted call: what it returns and the history it leaves
check_rate_limit(history, now, student_id, max_submissions_per_hour) ==
    Decide(WithKey(history, student_id), now, student_id, max_submissions_per_hour,
           Recent(WithKey(history, student_id), student_id, HourAgo(now)))

-----------------------------------------------------------------------------
(* src/guardrails.py: GradingGuardrails.validate_and_grade *)

Truthy_NotNone(student_id) == student_id.k = "str"

\* if student_id:
Truthy(student_id) == student_id.k = "str" /\ student_id.v # ""

\* submission.get(key, default)
SubmissionGet(x, default) == IF x.k = "absent" THEN default ELSE x

Prefixed(prefix, q) == [i \in 1..Len(q) |-> prefix \o q[i]]

Returned(success, result, messages) ==
    [raised |-> FALSE, success |-> success, result |-> result, messages |-> messages]

\* return False, <fallback>, messages: the return, unless the construction raised
FallbackReturn(fallback, messages) ==
    IF fallback.raised
    THEN [raised |-> TRUE, error |-> fallback.error]
    ELSE Returned(FALSE, fallback.value, messages)

\* return False, self.error_handler.create_fallback_result(...), messages
ReturnFallback(question_number, student_answer, error_message, messages) ==
    FallbackReturn(create_fallback_result(question_number, student_answer, error_message), messages)

ExtendUnless_Unmarked(ok, messages, prefix, items) ==
    IF ~ok THEN messages \o items ELSE messages

\* if not ok: messages.extend([prefix + item for item in items])
ExtendUnless(ok, messages, prefix, items) ==
    IF ~ok THEN messages \o Prefixed(prefix, items) ELSE messages

ConsistencyMessages(consistency, messages) ==
    ExtendUnless(consistency.ok, messages, WarnMark \o " Consistency: ", consistency.warnings)

\* step 4: consistency checks
ConsistencyStep(result, messages) == ConsistencyMessages(check_consistency(result), messages)

PolicyMessages_FailMark(policy, messages) ==
    ExtendUnless(policy.ok, messages, FailMark \o " Policy: ", policy.violations)

PolicyMessages(policy, messages) ==
    ExtendUnless(policy.ok, messages, WarnMark \o " Policy: ", policy.violations)

\* step 5: business rules
PolicyStep(result, messages) == PolicyMessages(enforce_grading_policies(result), messages)

\* steps 4-5 and the success return
AcceptResult(result, messages) ==
    Returned(TRUE, result,
             Append(PolicyStep(result, ConsistencyStep(result, messages)),
                    PassMark \o "Grading complete: " \o ToString(result.points_earned) \o "/"
                    \o ToString(result.points_possible) \o " points"))

\* step 3, once the output is validated
AfterOutput(submission, messages, output) ==
    IF ~output.ok \/ output.result = None
    THEN ReturnFallback(submission.question_number,
                        submission.student_answer,
                        "Invalid LLM response: " \o output.errors[1],
                        messages \o Prefixed(FailMark \o "Output: ", output.errors))
    ELSE AcceptResult(output.result, Append(messages, PassMark \o "Output validation passed"))

AfterInput_OutputFirst(submission, llm_response, input) ==
    IF ~validate_llm_response(llm_response, SubmissionGet(submission.question_number, PyInt(0))).ok
    THEN ReturnFallback(SubmissionGet(submission.question_number, PyInt(0)),
                        PyStr(str(SubmissionGet(submission.student_answer, PyStr("")))),
                        "Invalid LLM response",
                        <<FailMark \o "Output: invalid">>)
    ELSE IF ~input.ok
    THEN ReturnFallback(SubmissionGet(submission.question_number, PyInt(0)),
                        PyStr(str(SubmissionGet(submission.student_answer, PyStr("")))),
                        "Invalid submission: " \o input.errors[1],
                        Prefixed(FailMark \o "Input: ", input.errors))
    ELSE AcceptResult(validate_llm_response(llm_response, submission.question_number).result,
                      <<PassMark \o "Input validation passed",
                        PassMark \o "Output validation passed">>)

\* step 2, once the input is validated, and step 3
AfterInput(submission, llm_response, input) ==
    IF ~input.ok
    THEN ReturnFallback(SubmissionGet(submission.question_number, PyInt(0)),
                        PyStr(str(SubmissionGet(submission.student_answer, PyStr("")))),
                        "Invalid submission: " \o input.errors[1],
                        Prefixed(FailMark \o "Input: ", input.errors))
    ELSE AfterOutput(submission, <<PassMark \o "Input validation passed">>,
                     validate_llm_response(llm_response, submission.question_number))

\* steps 2-5, after the rate limit let the call through
GradeAdmitted(submission, llm_response) ==
    AfterInput(submission, llm_response, validate_student_submission(submission))

\* step 1, once the rate limit is checked, and the steps after it
AfterRateLimit(rate, submission, llm_response) ==
    [ret |-> IF ~rate.allowed
             THEN ReturnFallback(SubmissionGet(submission.question_number, PyInt(0)),
                                 PyStr(str(SubmissionGet(submission.student_answer, PyStr("")))),
                                 "Rate limit exceeded",
                                 <<FailMark \o rate.msg>>)
             ELSE GradeAdmitted(submission, llm_response),
     history |-> rate.history]

\* what the call returns (or that it raised) and the rate limiter's history after it
validate_and_grade(history, now, submission, llm_response, student_id) ==
    AfterRateLimit(IF Truthy(student_id)
                   THEN check_rate_limit(history, now, student_id.v, DefaultMaxPerHour)
                   ELSE [allowed |-> TRUE, history |-> history],
                   submission, llm_response)

-----------------------------------------------------------------------------
(* src/crew.py: GradingCrew.create_exam_report *)

\* sum(r.points_earned for r in results), sum(r.points_possible for r in results)
RECURSIVE SumField(_, _)
SumField(results, field) ==
    IF results = <<>> THEN 0 ELSE Head(results)[field] + SumField(Tail(results), field)

\* percentage = (total_earned / total_possible * 100) if total_possible > 0 else 0,
\* as the fraction num / den of hundredths of a percent
Percentage(total_earned, total_possible) ==
    IF total_possible > 0
    THEN [num |-> total_earned * 100, den |-> total_possible]
    ELSE [num |-> 0, den |-> 1]

\* percentage >= threshold
AtLeast(percentage, threshold) == percentage.num >= 100 * threshold * percentage.den

\* the if/elif ladder of create_exam_report
ReportLetterGrade(percentage) ==
    IF AtLeast(percentage, 93) THEN "A"
    ELSE IF AtLeast(percentage, 90) THEN "A-"
    ELSE IF AtLeast(percentage, 87) THEN "B+"
    ELSE IF AtLeast(percentage, 83) THEN "B"
    ELSE IF AtLeast(percentage, 80) THEN "B-"
    ELSE IF AtLeast(percentage, 77) THEN "C+"
    ELSE IF AtLeast(percentage, 73) THEN "C"
    ELSE IF AtLeast(percentage, 70) THEN "C-"
    ELSE IF AtLeast(percentage, 60) THEN "D"
    ELSE "F"

\* num / den rounded to the nearest integer; a fraction exactly half way goes where
\* the binary value of the float falls: `up` says which
RoundFraction(num, den, up) ==
    LET q == num \div den
        r == num % den
    IN  IF 2 * r > den \/ (2 * r = den /\ up) THEN q + 1 ELSE q

\* round(percentage, 2), in hundredths of a percent
Round2(percentage, up) == RoundFraction(percentage.num, percentage.den, up)

\* f"{percentage:.1f}", in tenths of a percent
Format1(percentage, up) ==
    LET tenths == RoundFraction(percentage.num, 10 * percentage.den, up)
    IN  ToString(tenths \div 10) \o "." \o ToString(tenths % 10)

\* for result in results: if result.points_earned >= 8 ... elif result.points_earned <= 5 ...
RECURSIVE Strengths(_)
Strengths(results) ==
    IF results = <<>> THEN <<>>
    ELSE (IF Head(results).points_earned >= 800
          THEN <<"Strong performance on Q" \o ToString(Head(results).question_number)>>
          ELSE <<>>) \o Strengths(Tail(results))

RECURSIVE AreasForImprovement(_)
AreasForImprovement(results) ==
    IF results = <<>> THEN <<>>
    ELSE (IF Head(results).points_earned < 800 /\ Head(results).points_earned <= 500
          THEN <<"Review concepts from Q" \o ToString(Head(results).question_number)>>
          ELSE <<>>) \o AreasForImprovement(Tail(results))

\* ', '.join(areas_for_improvement[:2])
JoinFirstTwo(areas) ==
    IF Len(areas) = 1 THEN areas[1] ELSE areas[1] \o ", " \o areas[2]

OverallFeedback(total_earned, total_possible, percentage, areas, up) ==
    "You scored " \o ToString(total_earned) \o "/" \o ToString(total_possible)
    \o " points (" \o Format1(percentage, up) \o "%). "
    \o (IF AtLeast(percentage, 70) THEN "Good job! " ELSE "Consider reviewing the material. ")
    \o "Focus on: "
    \o (IF areas # <<>> THEN JoinFirstTwo(areas) ELSE "maintaining your performance") \o "."

Report(results, student_name, exam_date, percentage, strengths, areas, ties) ==
    [student_name |-> student_name,
     exam_date |-> exam_date,
     total_questions |-> Len(results),
     total_points_earned |-> SumField(results, "points_earned"),
     total_points_possible |-> SumField(results, "points_possible"),
     percentage |-> Round2(percentage, ties.round),
     letter_grade |-> ReportLetterGrade(percentage),
     question_results |-> results,
     strengths |-> IF strengths # <<>> THEN strengths
                   ELSE <<"Consistent effort across all questions">>,
     areas_for_improvement |-> IF areas # <<>> THEN areas
                               ELSE <<"Continue current study approach">>,
     overall_feedback |-> OverallFeedback(SumField(results, "points_earned"),
                                          SumField(results, "points_possible"),
                                          percentage, areas, ties.format)]

\* `ties`: the directions in which a percentage exactly half way between two decimals
\* is rounded by round() and by the format
create_exam_report(results, student_name, exam_date, ties) ==
    Report(results, student_name, exam_date,
           Percentage(SumField(results, "points_earned"), SumField(results, "points_possible")),
           Strengths(results), AreasForImprovement(results), ties)

-----------------------------------------------------------------------------
(* The inputs the model draws from *)

PadTo(s, n) == s \o Rep("-", n - Len(s))

Feedback10 == "Too short."
Feedback30 == PadTo("Short feedback", 30)
Feedback49 == PadTo("Check the Q4 date filter and recount", 49)
Feedback50 == PadTo("Check the Q4 date filter and recount", 50)
Feedback120 == PadTo("You missed several December orders in the dataset", 120)
FeedbackDots == PadTo("Your answer is close... but you missed some orders", 60)
FeedbackTodo == PadTo("Good start; Todo: redo the Q4 filter step", 60)
FeedbackInsert == PadTo("[INSERT feedback here] for the student, xxx", 60)

Breakdown(c, w, i) ==
    [key \in {"correct_answer", "showing_work", "interpretation"} |->
        CASE key = "correct_answer" -> c [] key = "showing_work" -> w [] OTHER -> i]

QuestionNumberInputs == {Absent, PyInt(1), PyInt(2), PyInt(0)}
PointsEarnedInputs == {Absent, PyFloat(0), PyInt(7), PyFloat(1000), PyFloat(1100), PyFloat(-100)}
PointsPossibleInputs == {Absent, PyInt(10), PyInt(5)}
BreakdownInputs == {Absent, PyDict(Breakdown(0, 0, 0)), PyDict(Breakdown(300, 200, 200)),
                    PyDict(Breakdown(300, 200, 201)), PyDict(Breakdown(300, 200, 202)),
                    PyDict(Breakdown(600, 200, 200)), PyDict(Breakdown(700, 200, 200)),
                    PyDict(EmptyDict)}
FeedbackInputs == {Absent, PyStr(Feedback10), PyStr(Feedback30), PyStr(Feedback49),
                   PyStr(Feedback50), PyStr(Feedback120), PyStr(FeedbackDots),
                   PyStr(FeedbackTodo), PyStr(FeedbackInsert)}
ErrorTypeInputs == {Absent, PyStr("wrong_calculation"), PyStr("missing_data"), PyStr("no_error"),
                    PyStr("typo")}
SpecificErrorsInputs == {Absent, PyList(<<"Missed orders">>),
                         PyList(<<"Missed orders ORD020, ORD021", "Wrong date range">>)}
DataReferencesInputs == {Absent, PyList(<<"ecommerce_sales.csv">>)}
AnswerTextInputs == {PyStr("$6,500"), PyDict([value |-> PyStr("$6,500")]), PyDict(EmptyDict)}
\* points_earned with a points_breakdown in every relation to it
PointsInputs ==
    {<<PyFloat(0), PyDict(Breakdown(0, 0, 0))>>, <<PyFloat(0), PyDict(Breakdown(0, 1, 0))>>,
     <<PyInt(7), PyDict(Breakdown(300, 200, 200))>>, <<PyFloat(700), PyDict(Breakdown(500, 0, 200))>>,
     <<PyFloat(900), PyDict(Breakdown(600, 200, 100))>>, <<PyFloat(1000), PyDict(Breakdown(600, 200, 200))>>}

\* the response of the __main__ block of guardrails.py, with a feedback the schema accepts
BaseResponse ==
    [question_number |-> PyInt(1), points_earned |-> PyFloat(700), points_possible |-> PyInt(10),
     is_correct |-> PyBool(FALSE), student_answer |-> PyStr("$6,500"),
     correct_answer |-> PyStr("$7,398.53"),
     points_breakdown |-> PyDict(Breakdown(300, 200, 200)),
     error_type |-> PyStr("wrong_calculation"), specific_errors |-> PyList(<<"Missed orders">>),
     what_was_correct |-> PyList(<<"Good methodology">>),
     feedback |-> PyStr(Feedback120), data_references |-> PyList(<<"ecommerce_sales.csv">>)]

\* responses that differ in the fields the schema and the Output Guard examine
StructuralResponses ==
    {[BaseResponse EXCEPT !.question_number = q, !.points_earned = e, !.points_possible = p,
                          !.points_breakdown = b, !.feedback = f] :
        q \in QuestionNumberInputs, e \in PointsEarnedInputs, p \in PointsPossibleInputs,
        b \in BreakdownInputs, f \in {Absent, PyStr(Feedback49), PyStr(Feedback120), PyStr(FeedbackDots)}}

FeedbackResponses ==
    {[BaseResponse EXCEPT !.feedback = f, !.question_number = q, !.student_answer = a] :
        f \in FeedbackInputs, q \in QuestionNumberInputs, a \in AnswerTextInputs}

\* responses that differ in the fields the consistency and policy audits examine
SemanticResponses ==
    {[BaseResponse EXCEPT !.points_earned = pb[1], !.points_breakdown = pb[2],
                          !.is_correct = PyBool(c), !.error_type = t, !.specific_errors = se,
                          !.data_references = d, !.feedback = f] :
        pb \in PointsInputs, c \in BOOLEAN, t \in ErrorTypeInputs, se \in SpecificErrorsInputs,
        d \in DataReferencesInputs, f \in {PyStr(Feedback50), PyStr(FeedbackDots)}}

\* responses with a field of a type the schema cannot take
WrongTypeResponses ==
    {[BaseResponse EXCEPT !.is_correct = PyStr("maybe")],
     [BaseResponse EXCEPT !.points_earned = PyStr("seven")],
     [BaseResponse EXCEPT !.points_breakdown = PyStr("n/a"), !.feedback = PyStr(FeedbackDots)],
     [BaseResponse EXCEPT !.question_number = PyStr("one"), !.feedback = PyStr(Feedback10)]}

\* not a mapping at all
NotAMapping == None

\* responses whose showing_work credit is positive, zero, negative or not given
ShowingWorkResponses ==
    {[BaseResponse EXCEPT !.points_breakdown = PyDict(b), !.error_type = t] :
        b \in {Breakdown(300, 200, 200), Breakdown(500, 0, 200), Breakdown(699, 1, 0),
               Breakdown(800, -100, 0), [correct_answer |-> 700]},
        t \in ErrorTypeInputs}

Responses ==
    StructuralResponses \cup FeedbackResponses \cup SemanticResponses \cup WrongTypeResponses
    \cup ShowingWorkResponses \cup {NotAMapping}

PolicyResponses == SemanticResponses \cup ShowingWorkResponses

\* responses that earn no points, with a breakdown of zeros and with breakdowns that
\* hold a value other than zero
ZeroPointResponses ==
    {[BaseResponse EXCEPT !.points_earned = PyFloat(0), !.points_breakdown = PyDict(b),
                          !.is_correct = PyBool(c)] :
        b \in {Breakdown(0, 0, 0), Breakdown(0, 1, 0), Breakdown(0, -1, 0),
               Breakdown(100, -100, 0)},
        c \in BOOLEAN}

\* the results the schema accepts among the semantic and the zero-point responses
ConsistencyResults ==
    {GradingResult(r).value :
        r \in {x \in SemanticResponses \cup ZeroPointResponses : ~GradingResult(x).raised}}

\* the results the schema accepts among them
PolicyResults == {GradingResult(r).value : r \in {x \in PolicyResponses : ~GradingResult(x).raised}}

GradeThresholds == {9300, 9000, 8700, 8300, 8000, 7700, 7300, 7000, 6000}
\* percentages on, next to and between the thresholds, below 0 and above 100
PercentInputs ==
    {t + d : t \in GradeThresholds, d \in {-100, -10, -1, 0, 1, 10, 100}}
    \cup {-1, 0, 10000, 10001}

\* a result the schema accepts, for question q with points_earned e
ReportResult(q, e) ==
    [GradingResult(BaseResponse).value EXCEPT !.question_number = q, !.points_earned = e,
                                              !.points_breakdown = [correct_answer |-> e],
                                              !.feedback = Feedback50]

\* n results: all with points_earned e but the last, which has d hundredths less
ResultList(n, e, d) ==
    [i \in 1..n |-> ReportResult(1 + ((i - 1) % MaxQuestion), IF i = n THEN e - d ELSE e)]

ReportPoints == {930, 900, 870, 700, 600, 500}
ReportInputs ==
    {<<>>} \cup {ResultList(n, e, d) : n \in 1..MaxResults, e \in ReportPoints, d \in {0, 1, 50}}

RetryInputs == RetryableErrors \cup {"validation_error", "invalid_input", "unknown_error", ""}

LongAnswer == Rep("7", MaxAnswerLen)
SubmissionQuestionInputs == {Absent, None, PyInt(0), PyInt(1), PyInt(10), PyInt(11),
                             PyStr("1"), PyBool(TRUE)}
SubmissionAnswerInputs == {Absent, None, PyStr(""), PyStr("  \t\n"), PyStr("$6,500"),
                           PyStr(LongAnswer), PyStr(LongAnswer \o "7"),
                           PyStr(Rep(" ", MaxAnswerLen + 1)), PyInt(42)}
Submissions ==
    {[question_number |-> q, student_answer |-> a] :
        q \in SubmissionQuestionInputs, a \in SubmissionAnswerInputs}

ErrorMessages == {"", "Rate limit exceeded", "Invalid submission: student_answer cannot be empty"}

-----------------------------------------------------------------------------
(* State shared by the three specifications *)

Workers == {"w1", "w2"}
NoWorker == "none"
Students == {"alice", "bob"}
TickStep == Hour \div 2

NotCalled == [done |-> FALSE]
NoLocals == [student_id |-> "", now |-> 0, hour_ago |-> 0, recent |-> <<>>]

\* RateLimitGuardrails.__init__ with no call under way
IdleLimiter ==
    /\ submission_history = EmptyDict
    /\ clock = 0
    /\ pc = [w \in Workers |-> "idle"]
    /\ locals = [w \in Workers |-> NoLocals]
    /\ lock = NoWorker
    /\ calls = <<>>

limiterVars == <<submission_history, clock, pc, locals, lock, serialized, calls>>
workerVars == <<pc, locals, lock, serialized, calls>>

-----------------------------------------------------------------------------
(* SpecGuards: the guards as functions of their arguments *)

GuardRequests ==
    {[op |-> "validate_student_submission", submission |-> sub] : sub \in Submissions}
    \cup {[op |-> "validate_llm_response", response |-> r, question_number |-> q] :
            r \in Responses, q \in {PyInt(1), PyInt(2)}}
    \cup {[op |-> "create_fallback_result", question_number |-> q, student_answer |-> a,
           error_message |-> m] :
            q \in {None, PyInt(0), PyInt(1), PyInt(10), PyInt(11)},
            a \in {PyStr(""), PyStr("$6,500")}, m \in ErrorMessages}
    \cup {[op |-> "GradingResult", kw |-> r] :
            r \in StructuralResponses \cup ShowingWorkResponses}
    \cup {[op |-> "calculate_letter_grade", percentage |-> pct] : pct \in PercentInputs}
    \cup {[op |-> "enforce_grading_policies", result |-> r] : r \in PolicyResults}
    \cup {[op |-> "check_consistency", result |-> r] : r \in ConsistencyResults}
    \cup {[op |-> "create_exam_report", results |-> results, student_name |-> "Alice",
           exam_date |-> "2024-12-15"] : results \in ReportInputs}
    \cup {[op |-> "should_retry", attempt_number |-> a, error_type |-> t, max_retries |-> m,
           first_attempt |-> a] :
            a \in 0..MaxAttempts, t \in RetryInputs, m \in 0..MaxRetries}

InitGuards ==
    /\ IdleLimiter
    /\ serialized = TRUE
    /\ request \in GuardRequests
    /\ ret = NotCalled

CallValidateSubmission ==
    /\ request.op = "validate_student_submission"
    /\ ~ret.done
    /\ ret' = [done |-> TRUE, out |-> validate_student_submission(request.submission)]
    /\ UNCHANGED <<limiterVars, request>>

CallValidateResponse ==
    /\ request.op = "validate_llm_response"
    /\ ~ret.done
    /\ ret' = [done |-> TRUE,
               out |-> validate_llm_response(request.response, request.question_number)]
    /\ UNCHANGED <<limiterVars, request>>

CallCreateFallback ==
    /\ request.op = "create_fallback_result"
    /\ ~ret.done
    /\ ret' = [done |-> TRUE,
               out |-> create_fallback_result(request.question_number, request.student_answer,
                                              request.error_message)]
    /\ UNCHANGED <<limiterVars, request>>

\* GradingResult(**kw)
CallGradingResult ==
    /\ request.op = "GradingResult"
    /\ ~ret.done
    /\ ret' = [done |-> TRUE, out |-> GradingResult(request.kw)]
    /\ UNCHANGED <<limiterVars, request>>

CallCalculateLetterGrade ==
    /\ request.op = "calculate_letter_grade"
    /\ ~ret.done
    /\ ret' = [done |-> TRUE, out |-> calculate_letter_grade(request.percentage)]
    /\ UNCHANGED <<limiterVars, request>>

CallCheckConsistency ==
    /\ request.op = "check_consistency"
    /\ ~ret.done
    /\ ret' = [done |-> TRUE, out |-> check_consistency(request.result)]
    /\ UNCHANGED <<limiterVars, request>>

CallEnforcePolicies ==
    /\ request.op = "enforce_grading_policies"
    /\ ~ret.done
    /\ ret' = [done |-> TRUE, out |-> enforce_grading_policies(request.result)]
    /\ UNCHANGED <<limiterVars, request>>

CallShouldRetry ==
    /\ request.op = "should_retry"
    /\ ~ret.done
    /\ ret' = [done |-> TRUE,
               out |-> should_retry(request.attempt_number, request.error_type,
                                    request.max_retries)]
    /\ UNCHANGED <<limiterVars, request>>

CallCreateExamReport ==
    /\ request.op = "create_exam_report"
    /\ ~ret.done
    /\ \E ties \in [{"round", "format"} -> BOOLEAN] :
           ret' = [done |-> TRUE,
                   out |-> create_exam_report(request.results, request.student_name,
                                              request.exam_date, ties)]
    /\ UNCHANGED <<limiterVars, request>>

\* the caller of should_retry was told to retry: it counts the attempt and asks again
RetryAgain ==
    /\ request.op = "should_retry"
    /\ ret.done /\ ret.out
    /\ request' = [request EXCEPT !.attempt_number = @ + 1]
    /\ ret' = NotCalled
    /\ UNCHANGED limiterVars

NextGuards ==
    \/ CallValidateSubmission \/ CallValidateResponse \/ CallCreateFallback
    \/ CallGradingResult \/ CallCalculateLetterGrade \/ CallCheckConsistency
    \/ CallEnforcePolicies
    \/ CallCreateExamReport \/ CallShouldRetry \/ RetryAgain

SpecGuards == InitGuards /\ [][NextGuards]_vars

-----------------------------------------------------------------------------
(* Spec: one GradingGuardrails object serving validate_and_grade calls *)

MaxGradeHours == 1     \* hours the clock advances in Spec

GoodSubmission == [question_number |-> PyInt(1), student_answer |-> PyStr("$6,500")]
NoFeedbackResponse == [BaseResponse EXCEPT !.feedback = Absent]
ZeroResponse ==
    [BaseResponse EXCEPT !.points_earned = PyFloat(0), !.points_breakdown = PyDict(Breakdown(0, 0, 0)),
                         !.specific_errors = PyList(<<"Missed orders">>),
                         !.data_references = Absent, !.is_correct = PyBool(TRUE)]

\* submissions whose fields have the types the schema of the fallback result takes
GradeSubmissions ==
    {sub \in Submissions :
        /\ sub.question_number.k # "bool" /\ sub.student_answer.k # "int"
        /\ sub.student_answer \notin {PyStr(LongAnswer), PyStr(Rep(" ", MaxAnswerLen + 1))}}

\* no credit for a wrong calculation, with two errors, a data reference and 120
\* characters of feedback
ZeroCreditResponse ==
    [BaseResponse EXCEPT !.points_earned = PyFloat(0), !.points_breakdown = PyDict(Breakdown(0, 0, 0)),
                         !.specific_errors = PyList(<<"Missed orders ORD020, ORD021",
                                                      "Wrong date range">>)]

GradeCases ==
    {<<sub, r>> : sub \in GradeSubmissions, r \in {BaseResponse, NoFeedbackResponse}}
    \cup {<<GoodSubmission, r>> : r \in FeedbackResponses \cup SemanticResponses \cup {NotAMapping}}
    \cup {<<GoodSubmission, ZeroCreditResponse>>}

\* the cases a named submitter sends: a submission that passes input validation, with
\* a response that passes output validation and with one that fails it, a submission
\* that fails input validation, and one without question_number
LimitedCases ==
    {<<sub, r>> \in GradeCases :
        \/ /\ r = BaseResponse
           /\ \/ sub = GoodSubmission
              \/ sub = [GoodSubmission EXCEPT !.student_answer = PyStr("")]
              \/ sub = [GoodSubmission EXCEPT !.question_number = Absent]
        \/ /\ r = NoFeedbackResponse
           /\ sub = GoodSubmission}

GradeRequests ==
    {[op |-> "validate_and_grade", submission |-> c[1], llm_response |-> c[2], student_id |-> id] :
        c \in GradeCases, id \in {None, PyStr("")}}
    \cup {[op |-> "validate_and_grade", submission |-> c[1], llm_response |-> c[2],
           student_id |-> PyStr(id)] : c \in LimitedCases, id \in {"alice"}}

Init ==
    /\ IdleLimiter
    /\ serialized = TRUE
    /\ request \in GradeRequests
    /\ ret = NotCalled

\* one call of validate_and_grade, from its first statement to its return
Finish(call) ==
    /\ ret' = [done |-> TRUE, out |-> call.ret, before |-> submission_history, at |-> clock]
    /\ submission_history' = call.history

Grade ==
    /\ request.op = "validate_and_grade"
    /\ Finish(validate_and_grade(submission_history, clock, request.submission,
                                 request.llm_response, request.student_id))
    /\ UNCHANGED <<clock, workerVars, request>>

\* an hour passes between two calls
HourPasses ==
    /\ request.op = "validate_and_grade"
    /\ clock < MaxGradeHours * Hour
    /\ clock' = clock + Hour
    /\ UNCHANGED <<submission_history, workerVars, request, ret>>

Next == Grade \/ HourPasses

Spec == Init /\ [][Next]_vars

-----------------------------------------------------------------------------
(* SpecRate: workers calling check_rate_limit on one RateLimitGuardrails object, *)
(* statement by statement, with or without the external mutual exclusion         *)

InitRate ==
    /\ IdleLimiter
    /\ serialized \in BOOLEAN
    /\ request = [op |-> "check_rate_limit"]
    /\ ret = NotCalled

Running == {w \in Workers : pc[w] # "idle"}

Goto(w, label) == pc' = [pc EXCEPT ![w] = label]

\* the call returns: the caller releases the mutual exclusion if it took it
Return(w, allowed) ==
    /\ calls' = Append(calls, [student_id |-> locals[w].student_id, at |-> locals[w].now,
                               allowed |-> allowed])
    /\ Goto(w, "idle")
    /\ locals' = [locals EXCEPT ![w] = NoLocals]
    /\ lock' = IF serialized THEN NoWorker ELSE lock

\* a caller enters check_rate_limit(student_id, RateN)
Enter(w) ==
    /\ pc[w] = "idle"
    /\ Len(calls) + Cardinality(Running) < MaxCalls
    /\ serialized => lock = NoWorker
    /\ lock' = IF serialized THEN w ELSE lock
    /\ \E id \in Students : locals' = [locals EXCEPT ![w] = [NoLocals EXCEPT !.student_id = id]]
    /\ Goto(w, "read_clock")
    /\ UNCHANGED <<submission_history, clock, serialized, calls, request, ret>>

\* now = datetime.now(); hour_ago = datetime.now().timestamp() - 3600
ReadClock(w) ==
    /\ pc[w] = "read_clock"
    /\ locals' = [locals EXCEPT ![w].now = clock, ![w].hour_ago = HourAgo(clock)]
    /\ Goto(w, "test_key")
    /\ UNCHANGED <<submission_history, clock, lock, serialized, calls, request, ret>>

\* if student_id not in self.submission_history:
TestKey(w) ==
    /\ pc[w] = "test_key"
    /\ Goto(w, IF HasKey(submission_history, locals[w].student_id) THEN "filter" ELSE "init_key")
    /\ UNCHANGED <<submission_history, clock, locals, lock, serialized, calls, request, ret>>

\* self.submission_history[student_id] = []
SetKey(w) ==
    /\ pc[w] = "init_key"
    /\ submission_history' = InitKey(submission_history, locals[w].student_id)
    /\ Goto(w, "filter")
    /\ UNCHANGED <<clock, locals, lock, serialized, calls, request, ret>>

\* recent = [...]
Filter(w) ==
    /\ pc[w] = "filter"
    /\ locals' = [locals EXCEPT ![w].recent =
                      Recent(submission_history, locals[w].student_id, locals[w].hour_ago)]
    /\ Goto(w, "check_limit")
    /\ UNCHANGED <<submission_history, clock, lock, serialized, calls, request, ret>>

\* if len(recent) >= max_submissions_per_hour: return False, ...
CheckLimitDeny(w) ==
    /\ pc[w] = "check_limit"
    /\ OverLimit(locals[w].recent, RateN)
    /\ Return(w, FALSE)
    /\ UNCHANGED <<submission_history, clock, serialized, request, ret>>

CheckLimitPass(w) ==
    /\ pc[w] = "check_limit"
    /\ ~OverLimit(locals[w].recent, RateN)
    /\ Goto(w, "record")
    /\ UNCHANGED <<submission_history, clock, locals, lock, serialized, calls, request, ret>>

\* self.submission_history[student_id].append(now); return True, ...
RecordAndAllow(w) ==
    /\ pc[w] = "record"
    /\ submission_history' = Record(submission_history, locals[w].student_id, locals[w].now)
    /\ Return(w, TRUE)
    /\ UNCHANGED <<clock, serialized, request, ret>>

\* time passes
Tick ==
    /\ request.op = "check_rate_limit"
    /\ clock < MaxTicks * TickStep
    /\ clock' = clock + TickStep
    /\ UNCHANGED <<submission_history, workerVars, request, ret>>

NextRate ==
    \/ \E w \in Workers : Enter(w)
    \/ \E w \in Workers : ReadClock(w)
    \/ \E w \in Workers : TestKey(w)
    \/ \E w \in Workers : SetKey(w)
    \/ \E w \in Workers : Filter(w)
    \/ \E w \in Workers : CheckLimitDeny(w)
    \/ \E w \in Workers : CheckLimitPass(w)
    \/ \E w \in Workers : RecordAndAllow(w)
    \/ Tick

SpecRate == InitRate /\ [][NextRate]_vars

-----------------------------------------------------------------------------
(* SpecSerial: one caller at a time calling check_rate_limit on one          *)
(* RateLimitGuardrails object, each call from its first statement to its return *)

InitSerial ==
    /\ IdleLimiter
    /\ serialized = TRUE
    /\ request = [op |-> "check_rate_limit_call"]
    /\ ret = NotCalled

\* the return of the call and the history it leaves
Checked(student_id, call) ==
    /\ ret' = [done |-> TRUE, out |-> [allowed |-> call.allowed, msg |-> call.msg],
               student_id |-> student_id, at |-> clock, before |-> submission_history]
    /\ submission_history' = call.history
    /\ calls' = Append(calls, [student_id |-> student_id, at |-> clock,
                               allowed |-> call.allowed])

\* allowed, msg = rate_limiter.check_rate_limit(student_id, RateN)
CallCheckRateLimit ==
    /\ request.op = "check_rate_limit_call"
    /\ Len(calls) < MaxCalls
    /\ \E id \in Students :
           Checked(id, check_rate_limit(submission_history, clock, id, RateN))
    /\ UNCHANGED <<clock, pc, locals, lock, serialized, request>>

\* half an hour passes between two calls
HalfHourPasses ==
    /\ request.op = "check_rate_limit_call"
    /\ clock < MaxSerialTicks * TickStep
    /\ clock' = clock + TickStep
    /\ UNCHANGED <<submission_history, workerVars, request, ret>>

NextSerial == CallCheckRateLimit \/ HalfHourPasses

SpecSerial == InitSerial /\ [][NextSerial]_vars

-----------------------------------------------------------------------------
(* Properties of the rate limiter, checked under SpecRate *)

\* the calls for the same submitter that returned before call i and were allowed
AdmittedBefore(i) ==
    {j \in 1..(i - 1) : calls[j].student_id = calls[i].student_id /\ calls[j].allowed}

\* those of them whose timestamp lies within the 3600 seconds before call i
AdmittedInLastHour(i) == {j \in AdmittedBefore(i) : calls[i].at - calls[j].at < Hour}

\* the allowed calls for a submitter whose timestamps lie in the hour that ends at time t
AllowedInHourTo(id, t) ==
    {j \in 1..Len(calls) : /\ calls[j].student_id = id /\ calls[j].allowed
                           /\ calls[j].at <= t /\ t - calls[j].at < Hour}

Overshoot ==
    \E i \in 1..Len(calls) :
        Cardinality(AllowedInHourTo(calls[i].student_id, calls[i].at)) > RateN

AllowedTimes(id) ==
    LET idx == SelectSeq([i \in 1..Len(calls) |-> i],
                         LAMBDA i : calls[i].student_id = id /\ calls[i].allowed)
    IN  [n \in 1..Len(idx) |-> calls[idx[n]].at]

StoredHistory(history, id) == IF id \in DOMAIN history THEN history[id] ELSE <<>>

IsPrefix(a, b) == Len(a) <= Len(b) /\ SubSeq(b, 1, Len(a)) = a

\* one step of the limiter keeps every stored entry in its place; the step on which a
\* call returns changes nothing if the call was denied and appends the call's timestamp
\* to the checked submitter's history, and nothing else, if it was allowed; no other
\* step adds an entry
AppendOnlyStep ==
    /\ \A id \in Students :
           IsPrefix(StoredHistory(submission_history, id), StoredHistory(submission_history', id))
    /\ IF Len(calls') = Len(calls) + 1
       THEN LET call == calls'[Len(calls')]
            IN  \A id \in Students :
                    StoredHistory(submission_history', id)
                        = IF call.allowed /\ id = call.student_id
                          THEN Append(StoredHistory(submission_history, id), call.at)
                          ELSE StoredHistory(submission_history, id)
       ELSE \A id \in Students :
                StoredHistory(submission_history', id) = StoredHistory(submission_history, id)

\* C17: the stored history is append-only: a denied check_rate_limit call leaves every
\* submitter's history unchanged, an allowed call appends exactly one timestamp to the
\* checked submitter's history and leaves the others unchanged, and no stored entry is
\* ever removed or reordered.
C17_AppendOnly == [][AppendOnlyStep]_vars

\* C17, amended: the same, in serialized execution.
C17_AppendOnlySerialized == [][serialized => AppendOnlyStep]_vars

\* serialized calls for both submitters, allowed and denied, at different times, with
\* every admission still stored in the order it was made
C17_Witness ==
    /\ serialized
    /\ \E i \in 1..Len(calls) : ~calls[i].allowed
    /\ \A id \in Students :
           /\ id \in DOMAIN submission_history
           /\ submission_history[id] # <<>>
           /\ submission_history[id] = AllowedTimes(id)
    /\ \E id \in Students :
           submission_history[id][1] < submission_history[id][Len(submission_history[id])]

\* C18: after every check_rate_limit call for a submitter, the submitter's stored
\* history holds only timestamps of the trailing hour (entries older than one hour
\* relative to the time of the check have been pruned), so it never holds more than the
\* admissions of the last hour.
C18_StoredHistoryPruned ==
    (request.op = "check_rate_limit_call" /\ ret.done) =>
        LET stored == StoredHistory(submission_history, ret.student_id)
        IN  /\ \A i \in 1..Len(stored) : ret.at - stored[i] <= Hour
            /\ Len(stored) <= RateN

-----------------------------------------------------------------------------
(* Properties of validate_and_grade, checked under Spec *)

Graded == request.op = "validate_and_grade" /\ ret.done

\* the gates of the call that returned, evaluated on their own
RateDenied ==
    /\ Truthy(request.student_id)
    /\ ~check_rate_limit(ret.before, ret.at, request.student_id.v, DefaultMaxPerHour).allowed
InputFailed == ~validate_student_submission(request.submission).ok
OutputFailed ==
    ~validate_llm_response(request.llm_response, request.submission.question_number).ok
HardGateFailed == RateDenied \/ InputFailed \/ (~InputFailed /\ OutputFailed)

\* the constraints the schema declares on a constructed GradingResult
SchemaValid(result) ==
    /\ result.question_number \in MinQuestion..MaxQuestion
    /\ result.points_earned >= 0 /\ result.points_earned <= MaxPoints
    /\ Abs(SumValues(result.points_breakdown) - result.points_earned) <= Tolerance
    /\ result.error_type \in ErrorTypes \cup {NoErrorType}
    /\ Len(result.feedback) >= MinFeedbackSchema

IsFallback(result) ==
    /\ result.points_earned = 0
    /\ result.error_type = "incomplete_work"
    /\ result.correct_answer = "[REQUIRES MANUAL REVIEW]"

\* C1: every invocation of validate_and_grade returns a (success, result, messages)
\* triple whose result is a schema-valid GradingResult; none ends in an uncaught
\* exception, whatever the submission's question_number and also when rate-limit denied.
C1_AlwaysReturnsValidResult ==
    Graded => /\ ~ret.out.raised
              /\ SchemaValid(ret.out.result)

\* C3: validate_and_grade returns success=false exactly when a hard gate fails, and the
\* result is then the fallback result carrying a description of the failed gate.
C3_FalseIffHardGateFails ==
    Graded =>
        /\ HardGateFailed <=> (~ret.out.raised /\ ~ret.out.success)
        /\ HardGateFailed =>
              /\ ~ret.out.raised
              /\ IsFallback(ret.out.result)
              /\ \/ RateDenied /\ Contains(ret.out.result.feedback, "Rate limit exceeded")
                 \/ ~RateDenied /\ InputFailed
                        /\ Contains(ret.out.result.feedback, "Invalid submission: ")
                 \/ ~RateDenied /\ ~InputFailed
                        /\ Contains(ret.out.result.feedback, "Invalid LLM response: ")

NumberOfMessages(marker) ==
    Cardinality({i \in 1..Len(ret.out.messages) : StartsWith(ret.out.messages[i], marker)})

\* C4: when the rate limit, input validation and output validation all pass,
\* validate_and_grade returns success=true with the result parsed from the model
\* response, however many consistency warnings or policy violations it triggers;
\* each of them appears as one warn message and nothing else about them is returned.
C4_WarningsNeverBlock ==
    (Graded /\ ~HardGateFailed) =>
        LET parsed == GradingResult(request.llm_response).value
        IN  /\ ~ret.out.raised
            /\ ret.out.success
            /\ ret.out.result = parsed
            /\ NumberOfMessages(FailMark) = 0
            /\ NumberOfMessages(WarnMark) = Len(check_consistency(parsed).warnings)
                                            + Len(enforce_grading_policies(parsed).violations)

\* a call that passed every hard gate although its result draws a consistency
\* warning and two policy violations
C4_Witness ==
    /\ Graded /\ ~HardGateFailed
    /\ ~ret.out.raised /\ ret.out.success
    /\ Len(check_consistency(ret.out.result).warnings) >= 1
    /\ Len(enforce_grading_policies(ret.out.result).violations) >= 2
    /\ NumberOfMessages(WarnMark) >= 3

\* responses the model could have sent instead: a valid one, an invalid one, no mapping
ProbeResponses == {BaseResponse, NoFeedbackResponse, NotAMapping}

\* what the call at hand would have returned with another model response
GradeWith(llm_response) ==
    validate_and_grade(ret.before, ret.at, request.submission, llm_response,
                       request.student_id).ret

HistoryBefore(id) == IF id \in DOMAIN ret.before THEN ret.before[id] ELSE <<>>

\* C16: the stages run in the order rate limit, input validation, output validation,
\* consistency check, policy enforcement, and the first hard gate that fails ends the
\* call: after a rate-limit denial the only message is the denial and the return does
\* not depend on the model response; after an input failure the messages are the input
\* errors and the return does not depend on the model response; after an output failure
\* no consistency or policy message follows; when all gates pass the messages come in
\* the order of the stages. The rate limiter records an admitted call before the later
\* stages run, whatever they find.
C16_StagesInOrder ==
    Graded =>
        LET out == ret.out
            denied == RateDenied
            input == validate_student_submission(request.submission)
            output == validate_llm_response(request.llm_response,
                                            request.submission.question_number)
        IN  /\ denied =>
                  /\ submission_history = ret.before
                  /\ ~out.raised =>
                         /\ Len(out.messages) = 1
                         /\ StartsWith(out.messages[1], FailMark \o "Rate limit exceeded")
                  /\ \A r \in ProbeResponses : GradeWith(r) = out
            /\ (Truthy(request.student_id) /\ ~denied) =>
                  submission_history[request.student_id.v]
                      = Append(HistoryBefore(request.student_id.v), ret.at)
            /\ (~denied /\ ~input.ok) =>
                  /\ ~out.raised => out.messages = Prefixed(FailMark \o "Input: ", input.errors)
                  /\ \A r \in ProbeResponses : GradeWith(r) = out
            /\ (~denied /\ input.ok /\ ~output.ok) =>
                  /\ ~out.raised
                  /\ out.messages
                        = <<PassMark \o "Input validation passed">>
                          \o Prefixed(FailMark \o "Output: ", output.errors)
            /\ (~denied /\ input.ok /\ output.ok) =>
                  /\ ~out.raised
                  /\ out.messages
                        = <<PassMark \o "Input validation passed",
                            PassMark \o "Output validation passed">>
                          \o Prefixed(WarnMark \o " Consistency: ",
                                      check_consistency(out.result).warnings)
                          \o Prefixed(WarnMark \o " Policy: ",
                                      enforce_grading_policies(out.result).violations)
                          \o <<PassMark \o "Grading complete: "
                               \o ToString(out.result.points_earned) \o "/"
                               \o ToString(out.result.points_possible) \o " points">>

\* a denied call of a submission that input validation would have rejected: the only
\* message is the denial
C16_Witness ==
    /\ Graded /\ RateDenied /\ InputFailed
    /\ ~ret.out.raised
    /\ Len(ret.out.messages) = 1
    /\ Contains(ret.out.result.feedback, "Rate limit exceeded")

\* the messages returned hold one that mentions the stage
HasMessageOf(stage) ==
    \E i \in 1..Len(ret.out.messages) : Contains(ret.out.messages[i], stage)

\* C25: every stage that validate_and_grade executes appends at least one message to
\* the returned messages, whatever the outcome of the stage: the rate-limit check,
\* input validation, output validation, the consistency check and policy enforcement
\* each leave a message whether they passed, warned or failed.
C25_EveryStageLeavesAMessage ==
    (Graded /\ ~ret.out.raised) =>
        LET denied == RateDenied
            input_ok == ~InputFailed
            accepted == ~denied /\ input_ok /\ ~OutputFailed
        IN  /\ Truthy(request.student_id) => HasMessageOf("Rate limit")
            /\ ~denied => HasMessageOf("Input")
            /\ (~denied /\ input_ok) => HasMessageOf("Output")
            /\ accepted => HasMessageOf("Consistency")
            /\ accepted => HasMessageOf("Policy")

SeverityMarks == {PassMark, WarnMark, FailMark}

\* the text of a message after its severity marker
Unmarked(message) ==
    IF \E mark \in SeverityMarks : StartsWith(message, mark)
    THEN LET mark == CHOOSE x \in SeverityMarks : StartsWith(message, x)
         IN  SubSeq(message, Len(mark) + 1, Len(message))
    ELSE message

\* the stage a message comes from: 1 rate limit, 2 input validation, 3 output
\* validation, 4 consistency check, 5 policy enforcement, 6 the success return
StageOf(message) ==
    LET text == Unmarked(message)
    IN  CASE StartsWith(text, "Rate limit") -> 1
          [] StartsWith(text, "Input") -> 2
          [] StartsWith(text, "Output") -> 3
          [] StartsWith(text, " Consistency: ") -> 4
          [] StartsWith(text, " Policy: ") -> 5
          [] StartsWith(text, "Grading complete: ") -> 6
          [] OTHER -> 0

\* C26: every message returned by validate_and_grade begins with a severity marker
\* (pass, warn or fail), and the messages come in stage order; a fail-marked message is
\* present iff success is false, and when success is true the last message is the
\* pass-marked grading-complete message.
C26_MessagesMarked ==
    (Graded /\ ~ret.out.raised) =>
        LET messages == ret.out.messages
        IN  /\ \A i \in 1..Len(messages) :
                   /\ \E mark \in SeverityMarks : StartsWith(messages[i], mark)
                   /\ StageOf(messages[i]) # 0
            /\ \A i \in 1..(Len(messages) - 1) : StageOf(messages[i]) <= StageOf(messages[i + 1])
            /\ ~ret.out.success <=> NumberOfMessages(FailMark) > 0
            /\ ret.out.success =>
                   /\ messages # <<>>
                   /\ messages[Len(messages)]
                          = PassMark \o "Grading complete: "
                            \o ToString(ret.out.result.points_earned) \o "/"
                            \o ToString(ret.out.result.points_possible) \o " points"

\* an accepted call with a consistency warning and a policy warning between the pass
\* messages
C26_Witness ==
    /\ Graded /\ ~ret.out.raised /\ ret.out.success
    /\ Len(ret.out.messages) >= 5
    /\ \E i \in 1..Len(ret.out.messages) : StageOf(ret.out.messages[i]) = 4
    /\ \E i \in 1..Len(ret.out.messages) : StageOf(ret.out.messages[i]) = 5
    /\ StartsWith(ret.out.messages[3], WarnMark)

\* C29 as stated: whenever validate_and_grade returns, the question_number of the
\* returned result equals the question_number of the submission, on the success path
\* and on every fallback path.
C29_SameQuestionNumber ==
    (Graded /\ ~ret.out.raised) =>
        request.submission.question_number = PyInt(ret.out.result.question_number)

\* C29: whenever validate_and_grade returns, the question_number of the returned
\* result is the integer the schema makes of the question_number of the submission:
\* equal to it when the submission gives an integer, which is always so on the success
\* path (a model response graded for another question is never accepted), and the
\* number a numeral string stands for on a fallback path.
C29_SameQuestionNumberAsInteger ==
    (Graded /\ ~ret.out.raised) =>
        LET given == request.submission.question_number
        IN  /\ CoerceInt(given).ok
            /\ ret.out.result.question_number = CoerceInt(given).v
            /\ given.k = "int" => given = PyInt(ret.out.result.question_number)
            /\ ret.out.success => given.k = "int"

\* an accepted call, whose model response was graded for the question of the
\* submission
C29_Witness ==
    /\ Graded /\ ~ret.out.raised /\ ret.out.success
    /\ request.submission.question_number = PyInt(1)
    /\ request.llm_response.question_number = PyInt(1)
    /\ ret.out.result.question_number = 1

\* a fallback for a submission whose question_number is the string "1"
C29_WitnessNumeral ==
    /\ Graded /\ ~ret.out.raised /\ ~ret.out.success
    /\ request.submission.question_number = PyStr("1")
    /\ ret.out.result.question_number = 1

\* C30: validate_and_grade records the rate-limit admission before any validation
\* runs: every call with a non-empty submitter id that is not rate-denied adds exactly
\* one timestamp to the history of that submitter, whether the call then ends in success
\* or in a fallback caused by input or output validation, so rejected submissions use up
\* quota; a call with no submitter id, or an empty one, leaves the state of the rate
\* limiter unchanged.
C30_AdmissionRecordedFirst ==
    Graded =>
        LET id == request.student_id
            named == id.k = "str" /\ id.v # ""
        IN  /\ (named /\ ~RateDenied) =>
                   /\ submission_history[id.v] = Append(HistoryBefore(id.v), ret.at)
                   /\ \A other \in DOMAIN submission_history \ {id.v} :
                          /\ other \in DOMAIN ret.before
                          /\ submission_history[other] = ret.before[other]
            /\ ~named => submission_history = ret.before

\* an admitted call of a named submitter that ended in the fallback for a failed output
\* validation: the history of the submitter is one timestamp longer
C30_Witness ==
    /\ Graded /\ ~ret.out.raised /\ ~ret.out.success
    /\ request.student_id = PyStr("alice")
    /\ ~RateDenied /\ ~InputFailed /\ OutputFailed
    /\ Len(submission_history["alice"]) = Len(HistoryBefore("alice")) + 1

\* the call of a function of SpecGuards has returned
Called(op) == request.op = op /\ ret.done

\* the submission and the model response of the end-to-end case: question 1 with a
\* non-empty answer; no points, a breakdown of non-negative values summing to 0,
\* wrong_calculation, two specific errors, a data reference and 120 characters of
\* feedback without placeholder markers
C14_Premises ==
    /\ Graded /\ ~RateDenied
    /\ request.submission = GoodSubmission
    /\ IsMapping(request.llm_response)
    /\ ~GradingResult(request.llm_response).raised
    /\ LET r == GradingResult(request.llm_response).value
       IN  /\ r.question_number = 1
           /\ r.points_earned = 0
           /\ SumValues(r.points_breakdown) = 0
           /\ \A key \in DOMAIN r.points_breakdown : r.points_breakdown[key] >= 0
           /\ r.error_type = "wrong_calculation"
           /\ Len(r.specific_errors) = 2
           /\ Len(r.data_references) > 0
           /\ Len(r.feedback) = 120
           /\ \A i \in 1..Len(placeholder_indicators) :
                  ~Contains(Lower(r.feedback), Lower(placeholder_indicators[i]))

PolicyMessageCount == NumberOfMessages(WarnMark \o " Policy: ")

\* C14: for the end-to-end case validate_and_grade returns success=true and the
\* messages contain zero policy violations.
C14_NoPolicyViolations ==
    C14_Premises => (~ret.out.raised /\ ret.out.success /\ PolicyMessageCount = 0)

\* C14, amended: for the end-to-end case validate_and_grade returns success=true with
\* the parsed result, and the messages contain exactly one policy violation, the
\* missing-partial-credit one (showing_work is 0), as a warning.
C14_OnePolicyWarning ==
    C14_Premises =>
        /\ ~ret.out.raised /\ ret.out.success
        /\ ret.out.result = GradingResult(request.llm_response).value
        /\ PolicyMessageCount = 1
        /\ NumberOfMessages(WarnMark \o " Policy: " \o PartialCreditViolation) = 1
        /\ NumberOfMessages(FailMark) = 0

\* the end-to-end case was graded and accepted with its one warning
C14_Witness ==
    /\ C14_Premises
    /\ request.llm_response = ZeroCreditResponse
    /\ ret.out.success
    /\ PolicyMessageCount = 1

-----------------------------------------------------------------------------
(* Properties of the guards as functions, checked under SpecGuards *)

\* C2: for every question_number, student_answer and error_message,
\* create_fallback_result returns a schema-valid GradingResult with points_earned = 0,
\* error_type = incomplete_work, exactly three specific_errors of which one contains
\* the error message, empty what_was_correct and
\* data_references = ["[MANUAL REVIEW REQUIRED]"].
C2_FallbackAlwaysConstructed ==
    Called("create_fallback_result") =>
        /\ ~ret.out.raised
        /\ SchemaValid(ret.out.value)
        /\ ret.out.value.points_earned = 0
        /\ ret.out.value.error_type = "incomplete_work"
        /\ Len(ret.out.value.specific_errors) = 3
        /\ \E i \in 1..3 : Contains(ret.out.value.specific_errors[i], request.error_message)
        /\ ret.out.value.what_was_correct = <<>>
        /\ ret.out.value.data_references = <<"[MANUAL REVIEW REQUIRED]">>

\* every field of the response has the type and range the schema declares for it
WellFormed(r) ==
    /\ IsMapping(r)
    /\ r.question_number.k = "int" /\ r.question_number.v \in MinQuestion..MaxQuestion
    /\ IsNumber(r.points_earned) /\ Num(r.points_earned) >= 0 /\ Num(r.points_earned) <= MaxPoints
    /\ r.points_possible.k \in {"absent", "int"}
    /\ r.is_correct.k = "bool"
    /\ r.student_answer.k = "str" /\ r.correct_answer.k = "str"
    /\ r.points_breakdown.k = "dict"
    /\ r.error_type.k \in {"absent", "none"} \/ (r.error_type.k = "str" /\ r.error_type.v \in ErrorTypes)
    /\ \A f \in {"specific_errors", "what_was_correct", "data_references"} : r[f].k \in {"absent", "list"}
    /\ r.feedback.k = "str" /\ Len(r.feedback.v) >= MinFeedbackSchema

PointsPossibleOf(r) == IF r.points_possible.k = "absent" THEN DefaultPointsPossible ELSE r.points_possible.v

\* the premises of C8 about the request at hand
C8_Premises ==
    /\ Called("validate_llm_response")
    /\ WellFormed(request.response)
    /\ request.response.question_number = request.question_number
    /\ Abs(SumValues(request.response.points_breakdown.v) - Num(request.response.points_earned)) <= Tolerance
    /\ Num(request.response.points_earned) <= 100 * PointsPossibleOf(request.response)

\* every field the response gives is the field of the result, a field it leaves out has its default
FieldsPreserved(r, result) ==
    /\ result.question_number = r.question_number.v
    /\ result.points_earned = Num(r.points_earned)
    /\ result.points_possible = PointsPossibleOf(r)
    /\ result.is_correct = r.is_correct.v
    /\ result.student_answer = r.student_answer.v
    /\ result.correct_answer = r.correct_answer.v
    /\ result.points_breakdown = r.points_breakdown.v
    /\ result.error_type = (IF r.error_type.k = "str" THEN r.error_type.v ELSE NoErrorType)
    /\ \A f \in {"specific_errors", "what_was_correct", "data_references"} :
           result[f] = (IF r[f].k = "list" THEN r[f].v ELSE <<>>)
    /\ result.feedback = r.feedback.v

C8_Accepted ==
    /\ ret.out.ok
    /\ ret.out.errors = <<>>
    /\ ret.out.result # None
    /\ FieldsPreserved(request.response, ret.out.result)

\* C8 as stated: every well-formed response for the expected question whose breakdown
\* sums to points_earned within 0.01 and whose points_earned <= points_possible is
\* accepted with no errors and every field preserved.
C8_WellFormedAccepted == C8_Premises => C8_Accepted

NoPlaceholder(feedback) ==
    \A i \in 1..Len(placeholder_indicators) :
        ~\E j \in 1..(Len(feedback) - Len(placeholder_indicators[i]) + 1) :
            Lower(SubSeq(feedback, j, j + Len(placeholder_indicators[i]) - 1))
                = Lower(placeholder_indicators[i])

\* C8, amended: the same, for responses whose feedback holds none of the placeholder
\* markers "[insert", "TODO", "FIXME", "xxx", "..." (in any letter case).
C8_WellFormedCleanAccepted ==
    (C8_Premises /\ NoPlaceholder(request.response.feedback.v)) => C8_Accepted

\* an accepted response whose breakdown is 0.01 off its points and whose points are an int
C8_Witness ==
    /\ C8_Premises /\ NoPlaceholder(request.response.feedback.v)
    /\ ret.out.ok
    /\ request.response.points_earned.k = "int"
    /\ SumValues(request.response.points_breakdown.v) # Num(request.response.points_earned)

\* the response has a points_breakdown whose sum differs from its points_earned by more than 0.01
BreakdownOff(r) ==
    /\ IsMapping(r)
    /\ IsNumber(r.points_earned)
    /\ r.points_breakdown.k = "dict"
    /\ Abs(SumValues(r.points_breakdown.v) - Num(r.points_earned)) > Tolerance

C9_Rejected ==
    /\ ~ret.out.ok
    /\ ret.out.result = None
    /\ \E i \in 1..Len(ret.out.errors) :
           \/ Contains(ret.out.errors[i], "Points breakdown (" \o ToString(SumValues(request.response.points_breakdown.v))
                                          \o ") must sum to points_earned ("
                                          \o ToString(Num(request.response.points_earned)) \o ")")
           \/ Contains(ret.out.errors[i], "doesn't match points earned")

\* C9 as stated: every response whose breakdown sum differs from points_earned by more
\* than 0.01 gets ok=false, an error reporting the breakdown mismatch, and no result.
C9_MismatchReported ==
    (Called("validate_llm_response") /\ BreakdownOff(request.response)) => C9_Rejected

PointsEarnedAccepted(r) == Num(r.points_earned) >= 0 /\ Num(r.points_earned) <= MaxPoints

\* C9, amended: the same, for responses whose points_earned the schema accepts
\* (a number from 0 to 10).
C9_MismatchReportedForValidPoints ==
    (Called("validate_llm_response") /\ BreakdownOff(request.response)
        /\ PointsEarnedAccepted(request.response)) => C9_Rejected

\* a rejected response whose only fault is a breakdown 0.02 off its points
C9_Witness ==
    /\ Called("validate_llm_response") /\ BreakdownOff(request.response)
    /\ WellFormed(request.response)
    /\ Abs(SumValues(request.response.points_breakdown.v) - Num(request.response.points_earned)) = 2
    /\ ~ret.out.ok /\ ret.out.result = None /\ Len(ret.out.errors) = 1

\* the four rules of the Input Guard, each on its own
RequiredPresent(x) == x.k # "absent" /\ x.k # "none"
QuestionInRange(x) == x.k \in {"int", "bool"} /\ IntValue(x) >= 1 /\ IntValue(x) <= 10
Blank(text) == \A i \in 1..Len(text) : IsSpace(SubSeq(text, i, i))
TooLong(x) == Len(str(x)) > MaxAnswerLen

HasError(prefix) ==
    \E i \in 1..Len(ret.out.errors) : StartsWith(ret.out.errors[i], prefix)

\* how many checks of the four rules the submission fails
ViolationCount(sub) ==
    (IF ~RequiredPresent(sub.question_number) THEN 1 ELSE 0)
    + (IF ~RequiredPresent(sub.student_answer) THEN 1 ELSE 0)
    + (IF sub.question_number.k # "absent" /\ ~QuestionInRange(sub.question_number) THEN 1 ELSE 0)
    + (IF sub.student_answer.k = "none" \/ (sub.student_answer.k = "str" /\ Blank(sub.student_answer.v))
       THEN 1 ELSE 0)
    + (IF sub.student_answer.k # "absent" /\ TooLong(sub.student_answer) THEN 1 ELSE 0)

\* C10: validate_student_submission returns ok=true exactly when question_number and
\* student_answer are present and non-null, question_number is an integer in [1,10]
\* (a Python bool counts as an int), student_answer is not blank and its serialized
\* length is at most 5000; every violated rule contributes its error whatever the other
\* rules found, and a missing or out-of-range question_number always yields an error
\* naming question_number.
C10_InputRules ==
    Called("validate_student_submission") =>
        LET sub == request.submission
            q == sub.question_number
            a == sub.student_answer
        IN  /\ ret.out.ok <=>
                  /\ RequiredPresent(q) /\ RequiredPresent(a)
                  /\ QuestionInRange(q)
                  /\ ~(a.k = "str" /\ Blank(a.v))
                  /\ ~TooLong(a)
            /\ ret.out.ok <=> ret.out.errors = <<>>
            /\ ~RequiredPresent(q) => HasError("Missing required field: question_number")
            /\ ~RequiredPresent(a) => HasError("Missing required field: student_answer")
            /\ (q.k # "absent" /\ ~QuestionInRange(q)) => HasError("Invalid question_number")
            /\ ~QuestionInRange(q) =>
                  HasError("Invalid question_number") \/ HasError("Missing required field: question_number")
            /\ (a.k = "str" /\ Blank(a.v)) => HasError("student_answer cannot be empty")
            /\ (a.k # "absent" /\ TooLong(a)) => HasError("student_answer too long")
            /\ Len(ret.out.errors) = ViolationCount(sub)

\* a submission that breaks three rules at once and gets the three errors
C10_Witness ==
    /\ Called("validate_student_submission")
    /\ request.submission.question_number = PyInt(11)
    /\ request.submission.student_answer.k = "str"
    /\ Blank(request.submission.student_answer.v) /\ TooLong(request.submission.student_answer)
    /\ ~ret.out.ok
    /\ Len(ret.out.errors) = 3

\* C11: every GradingResult that construction accepts has
\* 0 <= points_earned <= points_possible; construction fails whenever points_earned
\* exceeds the points_possible supplied, and fails on that ground only then.
C11_PointsWithinPossible ==
    Called("GradingResult") =>
        LET kw == request.kw
        IN  /\ ~ret.out.raised =>
                  /\ ret.out.value.points_earned >= 0
                  /\ ret.out.value.points_earned <= 100 * ret.out.value.points_possible
            /\ (IsNumber(kw.points_earned) /\ Num(kw.points_earned) > 100 * PointsPossibleOf(kw))
                  => ret.out.raised
            /\ (ret.out.raised
                    /\ Contains(ret.out.error, "Points earned cannot exceed points possible"))
                  => Num(kw.points_earned) > 100 * PointsPossibleOf(kw)

GradeLadder == <<"F", "D", "C-", "C", "C+", "B-", "B", "B+", "A-", "A">>
GradeRank(grade) == CHOOSE i \in 1..Len(GradeLadder) : GradeLadder[i] = grade
\* the grade whose inclusive lower threshold is the highest one the percentage reaches
GradeByThresholds(percentage) ==
    GradeLadder[1 + Cardinality({t \in GradeThresholds : percentage >= t})]

\* C12: calculate_letter_grade is the step function with inclusive lower thresholds
\* 93 A, 90 A-, 87 B+, 83 B, 80 B-, 77 C+, 73 C, 70 C-, 60 D, otherwise F; 93.0 is A,
\* 92.9 is A-, 60.0 is D, 59.9 is F; a lower percentage never gets a better grade.
C12_LetterGradeLadder ==
    Called("calculate_letter_grade") =>
        /\ ret.out = GradeByThresholds(request.percentage)
        /\ request.percentage = 9300 => ret.out = "A"
        /\ request.percentage = 9290 => ret.out = "A-"
        /\ request.percentage = 6000 => ret.out = "D"
        /\ request.percentage = 5990 => ret.out = "F"
        /\ \A lower \in PercentInputs :
               lower <= request.percentage
                   => GradeRank(calculate_letter_grade(lower)) <= GradeRank(ret.out)

\* a percentage exactly on a threshold got the higher grade
C12_Witness ==
    /\ Called("calculate_letter_grade")
    /\ request.percentage = 9000
    /\ ret.out = "A-"

\* C13: for error_type = wrong_calculation, enforce_grading_policies reports the
\* missing-partial-credit violation exactly when the showing_work value is not greater
\* than 0 (zero or absent included); otherwise it reports no such violation.
C13_PartialCreditRule ==
    Called("enforce_grading_policies") =>
        ((\E i \in 1..Len(ret.out.violations) :
              StartsWith(ret.out.violations[i], PartialCreditViolation))
         <=> (/\ request.result.error_type = "wrong_calculation"
              /\ Get(request.result.points_breakdown, "showing_work", 0) <= 0))

\* C15: should_retry is false at every attempt for validation_error, invalid_input and
\* any unlisted error type; for llm_error, network_error, timeout_error and
\* rate_limit_error it is true exactly while attempt_number < max_retries, so a caller
\* that counts each retry makes at most max_retries of them.
C15_RetryBounded ==
    Called("should_retry") =>
        /\ request.error_type \notin RetryableErrors => ~ret.out
        /\ request.error_type \in RetryableErrors
              => (ret.out <=> request.attempt_number < request.max_retries)
        /\ request.attempt_number - request.first_attempt <= request.max_retries
        /\ ret.out => request.attempt_number + 1 <= request.max_retries

\* a caller that started at attempt 0 was told to stop after max_retries retries
C15_Witness ==
    /\ Called("should_retry")
    /\ request.first_attempt = 0
    /\ request.max_retries = MaxRetries
    /\ request.attempt_number = MaxRetries
    /\ request.error_type = "timeout_error"
    /\ ~ret.out

\* the schema cannot build a GradingResult from the response of the call at hand
ConstructionFails ==
    ~IsMapping(request.response) \/ GradingResult(request.response).raised

\* the messages of the checks made on a constructed result
StageMessages ==
    {"Question number mismatch", "Points earned (", "Points breakdown (", "Feedback too short",
     "Feedback contains placeholder text"}

\* C19: validate_llm_response never raises: for any payload (missing fields, wrong
\* types, values out of range, not a mapping) a failure to construct GradingResult
\* returns ok=false, exactly one error and an absent result, and none of the checks on
\* a constructed result is made.
C19_ConstructionFailureAborts ==
    (Called("validate_llm_response") /\ ConstructionFails) =>
        /\ ~ret.out.ok
        /\ Len(ret.out.errors) = 1
        /\ \/ StartsWith(ret.out.errors[1], "Pydantic validation failed: ")
           \/ StartsWith(ret.out.errors[1], "Failed to parse response: ")
        /\ \A m \in StageMessages : ~HasError(m)
        /\ ret.out.result = None

\* a response with a field of the wrong type whose question number and feedback would
\* have failed the later checks: one error, no result
C19_Witness ==
    /\ Called("validate_llm_response")
    /\ request.response = [BaseResponse EXCEPT !.points_breakdown = PyStr("n/a"),
                                                !.feedback = PyStr(FeedbackDots)]
    /\ request.question_number = PyInt(2)
    /\ Len(ret.out.errors) = 1
    /\ ret.out.result = None

\* the marker occurs in the feedback, whatever the case of the letters
MarkerFound(feedback, indicator) ==
    \E j \in 1..(Len(feedback) - Len(indicator) + 1) :
        Lower(SubSeq(feedback, j, j + Len(indicator) - 1)) = Lower(indicator)

MarkersFound(feedback) ==
    {i \in 1..Len(placeholder_indicators) : MarkerFound(feedback, placeholder_indicators[i])}

\* C20: when the construction succeeds, validate_llm_response makes all the checks on
\* the result and collects every violation: question-number mismatch, points exceeding
\* points possible, breakdown mismatch, short feedback, and one error for each
\* placeholder marker found in the feedback whatever its case; ok is true iff there is
\* no error, and the parsed result is returned even when ok is false.
C20_AllStagesCollected ==
    (Called("validate_llm_response") /\ ~ConstructionFails) =>
        LET result == GradingResult(request.response).value
            mismatch == result.question_number # request.question_number.v
            exceeds == result.points_earned > 100 * result.points_possible
            off == Abs(SumValues(result.points_breakdown) - result.points_earned) > Tolerance
            short == Len(result.feedback) < MinFeedbackOutput
            markers == MarkersFound(result.feedback)
        IN  /\ mismatch <=> HasError("Question number mismatch")
            /\ exceeds <=> HasError("Points earned (")
            /\ off <=> HasError("Points breakdown (")
            /\ short <=> HasError("Feedback too short")
            /\ \A i \in 1..Len(placeholder_indicators) :
                   i \in markers
                   <=> \E k \in 1..Len(ret.out.errors) :
                           ret.out.errors[k] = "Feedback contains placeholder text: "
                                               \o placeholder_indicators[i]
            /\ Len(ret.out.errors)
                   = (IF mismatch THEN 1 ELSE 0) + (IF exceeds THEN 1 ELSE 0)
                     + (IF off THEN 1 ELSE 0) + (IF short THEN 1 ELSE 0) + Cardinality(markers)
            /\ ret.out.ok <=> ret.out.errors = <<>>
            /\ ret.out.result = result

\* a constructed result that fails three of the checks, one of them for two markers:
\* four errors, and the result is returned
C20_Witness ==
    /\ Called("validate_llm_response")
    /\ ~ConstructionFails
    /\ ~ret.out.ok
    /\ HasError("Question number mismatch")
    /\ Cardinality(MarkersFound(ret.out.result.feedback)) = 2
    /\ Len(ret.out.errors) = 3
    /\ ret.out.result # None

NonNegativeBreakdown(result) ==
    \A key \in DOMAIN result.points_breakdown : result.points_breakdown[key] >= 0

\* C21: every GradingResult that construction accepts, and so every result the Output
\* Guard returns, has only non-negative values in points_breakdown: a response with a
\* negative breakdown value is rejected even when the values sum to points_earned.
C21_BreakdownNonNegative ==
    /\ (Called("GradingResult") /\ ~ret.out.raised) => NonNegativeBreakdown(ret.out.value)
    /\ (Called("validate_llm_response") /\ ret.out.result # None)
           => NonNegativeBreakdown(ret.out.result)

\* C22: report construction implements the letter-grade mapping of the schema: the
\* letter_grade that create_exam_report puts in the report equals calculate_letter_grade
\* applied to the percentage the same report carries (total earned / total possible x 100,
\* rounded to two decimals), so the pair passes the letter-grade check of the schema.
C22_ReportGradeMatchesSchema ==
    Called("create_exam_report") =>
        ret.out.letter_grade = calculate_letter_grade(ret.out.percentage)

\* the list of violations of the call at hand holds a message that starts with prefix
HasViolation(prefix) ==
    \E i \in 1..Len(ret.out.violations) : StartsWith(ret.out.violations[i], prefix)

Count(b) == IF b THEN 1 ELSE 0

\* C23: enforce_grading_policies evaluates its four rules independently: the violation
\* list holds one entry for each violated rule (showing_work > 0 for a wrong
\* calculation; 50 characters of feedback below full points; data_references for
\* wrong_calculation and missing_data; two specific_errors for zero points), a result
\* violating several rules gets all of them, and compliant is true iff the list is empty.
C23_RulesIndependent ==
    Called("enforce_grading_policies") =>
        LET result == request.result
            no_partial_credit ==
                /\ result.error_type = "wrong_calculation"
                /\ ~(Get(result.points_breakdown, "showing_work", 0) > 0)
            short_feedback ==
                /\ result.points_earned < 100 * result.points_possible
                /\ Len(result.feedback) < MinFeedbackPolicy
            no_data_references ==
                /\ result.error_type \in {"wrong_calculation", "missing_data"}
                /\ result.data_references = <<>>
            unjustified_zero ==
                /\ result.points_earned = 0
                /\ Len(result.specific_errors) < MinZeroPointErrors
        IN  /\ no_partial_credit <=> HasViolation(PartialCreditViolation)
            /\ short_feedback
                   <=> HasViolation("Policy violation: Incorrect answer requires detailed feedback")
            /\ no_data_references
                   <=> HasViolation("Policy violation: Data-related error must include data_references")
            /\ unjustified_zero
                   <=> HasViolation("Policy violation: Zero points requires at least 2 specific errors")
            /\ Len(ret.out.violations)
                   = Count(no_partial_credit) + Count(short_feedback)
                     + Count(no_data_references) + Count(unjustified_zero)
            /\ ret.out.ok <=> ret.out.violations = <<>>

\* the list of warnings of the call at hand holds a message that starts with prefix
HasWarning(prefix) ==
    \E i \in 1..Len(ret.out.warnings) : StartsWith(ret.out.warnings[i], prefix)

\* C24: check_consistency produces one warning for exactly each of these conditions
\* that holds: is_correct with points_earned below 8; not is_correct with an empty
\* specific_errors list; error_type = no_error with is_correct = false; points_earned = 0
\* with some non-zero breakdown value; it returns ok = true iff there is no warning.
C24_ConsistencyWarnings ==
    Called("check_consistency") =>
        LET result == request.result
            low_score == result.is_correct /\ result.points_earned < CorrectMinPoints
            no_errors_listed == ~result.is_correct /\ result.specific_errors = <<>>
            no_error_but_wrong == result.error_type = "no_error" /\ ~result.is_correct
            zero_with_breakdown ==
                /\ result.points_earned = 0
                /\ \E key \in DOMAIN result.points_breakdown : result.points_breakdown[key] # 0
        IN  /\ low_score <=> HasWarning("Marked as correct but only")
            /\ no_errors_listed <=> HasWarning("Marked as incorrect but no specific_errors")
            /\ no_error_but_wrong <=> HasWarning("error_type is 'no_error' but is_correct is False")
            /\ zero_with_breakdown <=> HasWarning("Points earned is 0 but breakdown")
            /\ Len(ret.out.warnings)
                   = Count(low_score) + Count(no_errors_listed) + Count(no_error_but_wrong)
                     + Count(zero_with_breakdown)
            /\ ret.out.ok <=> ret.out.warnings = <<>>

\* C27: for every GradingResult that construction accepts, the points_breakdown sum is
\* within 0.01 of points_earned and feedback has at least 50 characters; so
\* validate_llm_response never reports its breakdown-mismatch error or its 'min 20'
\* feedback-length error, and enforce_grading_policies never reports the
\* minimum-feedback-length violation: after construction only the question-number,
\* points-exceed-possible and placeholder checks of the Output Guard can fail.
C27_DuplicateChecksUnreachable ==
    /\ (Called("GradingResult") /\ ~ret.out.raised) =>
           /\ Abs(SumValues(ret.out.value.points_breakdown) - ret.out.value.points_earned)
                  <= Tolerance
           /\ Len(ret.out.value.feedback) >= MinFeedbackSchema
    /\ Called("validate_llm_response") =>
           /\ ~HasError("Points breakdown (")
           /\ ~HasError("Feedback too short")
           /\ \A i \in 1..Len(ret.out.errors) :
                  \/ ret.out.result = None
                  \/ StartsWith(ret.out.errors[i], "Question number mismatch")
                  \/ StartsWith(ret.out.errors[i], "Points earned (")
                  \/ StartsWith(ret.out.errors[i], "Feedback contains placeholder text")
    /\ Called("enforce_grading_policies") =>
           ~HasViolation("Policy violation: Incorrect answer requires detailed feedback")

\* a constructed result on which each of the three checks that remain fails
C27_Witness ==
    /\ Called("validate_llm_response")
    /\ ret.out.result # None
    /\ HasError("Question number mismatch")
    /\ HasError("Points earned (")
    /\ HasError("Feedback contains placeholder text")
    /\ Len(ret.out.errors) = 3
    /\ Len(ret.out.result.feedback) >= MinFeedbackSchema

\* C28: every result returned by create_fallback_result is clean under the audits
\* that follow: check_consistency returns ok = true with no warning and
\* enforce_grading_policies returns compliant = true with no violation, for every
\* question_number in 1-10, student_answer and error_message.
C28_FallbackIsClean ==
    Called("create_fallback_result") =>
        /\ (request.question_number.k = "int"
                /\ request.question_number.v \in MinQuestion..MaxQuestion)
               => ~ret.out.raised
        /\ ~ret.out.raised =>
               /\ check_consistency(ret.out.value) = [ok |-> TRUE, warnings |-> <<>>]
               /\ enforce_grading_policies(ret.out.value) = [ok |-> TRUE, violations |-> <<>>]

\* the fallback for question 10 with an empty answer and an empty error message
C28_Witness ==
    /\ Called("create_fallback_result")
    /\ request.question_number = PyInt(MaxQuestion)
    /\ request.student_answer = PyStr("")
    /\ request.error_message = ""
    /\ ~ret.out.raised
    /\ ret.out.value.points_earned = 0
    /\ enforce_grading_policies(ret.out.value).ok

====
